---- MODULE Spec2Model ----
(***************************************************************************)
(* Receipt extraction pipeline of bizwise (backend/services).             *)
(*                                                                         *)
(* Text is a sequence of one-character strings.  Money is an integer       *)
(* number of hundredths; confidences and scores are integers in units of   *)
(* 1/10000.  An optional value is a sequence: <<>> is Python's None and    *)
(* <<v>> is the value v.                                                   *)
(***************************************************************************)
EXTENDS Integers, Sequences, FiniteSets, TLC

VARIABLES
    today,                  \* datetime.now() as [year, month, day]
    arg,                    \* the argument handed to the function under study
    ret,                    \* what the function returned
    fn,                     \* which function produced ret ("none" before the call)
    tesseract_available,    \* OCRService.tesseract_available, set by __init__
    easyocr_installed,      \* whether easyocr.Reader(...) can be constructed here
    easyocr_reader,         \* OCRService.easyocr_reader, shared by all requests
    constructions,          \* how many times easyocr.Reader(...) was constructed
    init_failed,            \* whether _init_easyocr has raised in this process
    req                     \* the requests in flight, one per worker

vars == <<today, arg, ret, fn, tesseract_available, easyocr_installed,
          easyocr_reader, constructions, init_failed, req>>

None == <<>>
Some(v) == <<v>>

(***************************************************************************)
(* Characters                                                              *)
(***************************************************************************)
UpperSeq == <<"A","B","C","D","E","F","G","H","I","J","K","L","M",
              "N","O","P","Q","R","S","T","U","V","W","X","Y","Z">>
LowerSeq == <<"a","b","c","d","e","f","g","h","i","j","k","l","m",
              "n","o","p","q","r","s","t","u","v","w","x","y","z">>
DigitSeq == <<"0","1","2","3","4","5","6","7","8","9">>

Upper == {UpperSeq[i] : i \in 1..26}
Lower == {LowerSeq[i] : i \in 1..26}
Alpha == Upper \cup Lower
Digit == {DigitSeq[i] : i \in 1..10}
\* \w and \s of Python's re, restricted to ASCII
WordCh == Alpha \cup Digit \cup {"_"}
Space == {" ", "\t", "\n", "\r"}

\* str.lower() / str.upper() on one character
ToLower(c) == IF c \in Upper THEN LowerSeq[CHOOSE i \in 1..26 : UpperSeq[i] = c] ELSE c
ToUpper(c) == IF c \in Lower THEN UpperSeq[CHOOSE i \in 1..26 : LowerSeq[i] = c] ELSE c

\* int() of one digit character
DigitVal(c) == (CHOOSE i \in 1..10 : DigitSeq[i] = c) - 1

Min(a, b) == IF a < b THEN a ELSE b
Max(a, b) == IF a > b THEN a ELSE b

(***************************************************************************)
(* Python's re: a backtracking matcher.  A pattern is a tree of records.   *)
(* M maps a sequence of match states [pos, caps], ordered by the engine's  *)
(* priority, to the sequence of states after the pattern, again in         *)
(* priority order (greedy: longest first, lazy: shortest first,            *)
(* alternatives left to right).  The first state of the result is the      *)
(* match the engine reports.  Recursion follows the pattern, never the     *)
(* text.                                                                   *)
(***************************************************************************)
Inf == -1
NoCaps == <<<<0, 0>>, <<0, 0>>, <<0, 0>>>>

Set(S) == [t |-> "set", cs |-> S]
Ch(c) == [t |-> "set", cs |-> {c}]
AnyCh == [t |-> "any"]
Cat(rs) == [t |-> "cat", rs |-> rs]
Lit(w) == [t |-> "lit", w |-> w]
Alt(rs) == [t |-> "alt", rs |-> rs]
Rep(r, lo, hi) == [t |-> "rep", r |-> r, lo |-> lo, hi |-> hi, greedy |-> TRUE]
Lazy(r, lo, hi) == [t |-> "rep", r |-> r, lo |-> lo, hi |-> hi, greedy |-> FALSE]
Star(r) == Rep(r, 0, Inf)
Plus(r) == Rep(r, 1, Inf)
Opt(r) == Rep(r, 0, 1)
Grp(n, r) == [t |-> "grp", n |-> n, r |-> r]
Eos == [t |-> "eos"]
Bos == [t |-> "bos"]
WordB == [t |-> "wb"]

IsWordAt(s, i) == i >= 1 /\ i <= Len(s) /\ s[i] \in WordCh

\* does character c satisfy the class cs (ic: re.IGNORECASE)
InClass(c, cs, ic) == c \in cs \/ (ic /\ (ToLower(c) \in cs \/ ToUpper(c) \in cs))

\* does the one-character pattern r ("set" or "any") accept s[i]
Accepts(r, s, i, ic) ==
    /\ i >= 1 /\ i <= Len(s)
    /\ IF r.t = "any" THEN s[i] # "\n" ELSE InClass(s[i], r.cs, ic)

\* the concatenation of a sequence of sequences
RECURSIVE Flatten(_)
Flatten(ss) ==
    IF Len(ss) = 0 THEN <<>>
    ELSE IF Len(ss) = 1 THEN ss[1]
    ELSE LET h == Len(ss) \div 2
         IN  Flatten(SubSeq(ss, 1, h)) \o Flatten(SubSeq(ss, h + 1, Len(ss)))

\* how many consecutive characters from position i the one-character
\* pattern r accepts
RunLen(r, s, i, ic) ==
    CHOOSE k \in 0..(Len(s) + 1 - i) :
        /\ ~Accepts(r, s, i + k, ic)
        /\ \A j \in 0..(k - 1) : Accepts(r, s, i + j, ic)

RECURSIVE M(_, _, _, _), MCat(_, _, _, _, _), MRep(_, _, _, _, _, _)
M(r, s, sts, ic) ==
    CASE r.t \in {"set", "any"} ->
            LET ok == SelectSeq(sts, LAMBDA st : Accepts(r, s, st.pos, ic))
            IN  [k \in 1..Len(ok) |-> [ok[k] EXCEPT !.pos = @ + 1]]
      [] r.t = "lit" ->
            LET ok == SelectSeq(sts, LAMBDA st :
                        /\ st.pos + Len(r.w) - 1 <= Len(s)
                        /\ \A k \in 1..Len(r.w) : InClass(s[st.pos + k - 1], {r.w[k]}, ic))
            IN  [k \in 1..Len(ok) |-> [ok[k] EXCEPT !.pos = @ + Len(r.w)]]
      [] r.t = "cat" -> MCat(r.rs, 1, s, sts, ic)
      [] r.t = "alt" ->
            Flatten([k \in 1..Len(sts) |->
                Flatten([a \in 1..Len(r.rs) |-> M(r.rs[a], s, <<sts[k]>>, ic)])])
      [] r.t = "rep" ->
            IF r.r.t \in {"set", "any"}
            THEN Flatten([k \in 1..Len(sts) |->
                    LET run == RunLen(r.r, s, sts[k].pos, ic)
                        hi == IF r.hi = Inf THEN run ELSE Min(r.hi, run)
                        n == hi - r.lo + 1
                    IN  IF n <= 0 THEN <<>>
                        ELSE [j \in 1..n |->
                                [sts[k] EXCEPT !.pos = @ + (IF r.greedy THEN hi - j + 1
                                                            ELSE r.lo + j - 1)]]])
            ELSE Flatten([k \in 1..Len(sts) |-> MRep(r, r.lo, r.hi, s, sts[k], ic)])
      [] r.t = "grp" ->
            LET inner == M(r.r, s,
                           [k \in 1..Len(sts) |->
                               [sts[k] EXCEPT !.caps[r.n] = <<sts[k].pos, 0>>]], ic)
            IN  [k \in 1..Len(inner) |->
                    [inner[k] EXCEPT !.caps[r.n] = <<@[1], inner[k].pos>>]]
      [] r.t = "eos" ->
            SelectSeq(sts, LAMBDA st : st.pos = Len(s) + 1
                                       \/ (st.pos = Len(s) /\ s[st.pos] = "\n"))
      [] r.t = "bos" -> SelectSeq(sts, LAMBDA st : st.pos = 1)
      [] r.t = "wb" ->
            SelectSeq(sts, LAMBDA st : IsWordAt(s, st.pos - 1) # IsWordAt(s, st.pos))

MCat(rs, k, s, sts, ic) ==
    IF k > Len(rs) \/ sts = <<>> THEN sts
    ELSE MCat(rs, k + 1, s, M(rs[k], s, sts, ic), ic)

\* repetition of a composite pattern from one state
MRep(r, lo, hi, s, st, ic) ==
    LET one == SelectSeq(M(r.r, s, <<st>>, ic), LAMBDA x : x.pos > st.pos)
        more == IF hi = 0 THEN <<>>
                ELSE Flatten([k \in 1..Len(one) |->
                        MRep(r, Max(lo - 1, 0), IF hi = Inf THEN Inf ELSE hi - 1,
                             s, one[k], ic)])
        stop == IF lo = 0 THEN <<st>> ELSE <<>>
    IN  IF r.greedy THEN more \o stop ELSE stop \o more

\* zero-width patterns: they consume nothing
ZeroWidth(r) ==
    \/ r.t \in {"bos", "eos", "wb"}
    \/ (r.t = "alt" /\ \A a \in 1..Len(r.rs) : r.rs[a].t \in {"bos", "eos", "wb"})

\* a necessary condition for r to match at position p, read off the first
\* character r can consume; it only spares M the positions that cannot match
RECURSIVE MayStart(_, _, _, _)
MayStart(r, s, p, ic) ==
    CASE r.t \in {"set", "any"} -> Accepts(r, s, p, ic)
      [] r.t = "lit" -> r.w = <<>> \/ (p <= Len(s) /\ InClass(s[p], {r.w[1]}, ic))
      [] r.t = "grp" -> MayStart(r.r, s, p, ic)
      [] r.t = "rep" -> r.lo = 0 \/ MayStart(r.r, s, p, ic)
      [] r.t = "alt" -> \E a \in 1..Len(r.rs) : MayStart(r.rs[a], s, p, ic)
      [] r.t = "cat" ->
            LET solid == SelectSeq(r.rs, LAMBDA x : ~ZeroWidth(x))
            IN  solid = <<>> \/ MayStart(solid[1], s, p, ic)
      [] OTHER -> TRUE

\* pattern.match(s, pos): anchored at position i; None or the match
FirstState(i, all) ==
    IF all = <<>> THEN None
    ELSE Some([start |-> i, end |-> all[1].pos, caps |-> all[1].caps])

MatchAt(re, s, i, ic) ==
    IF ~MayStart(re, s, i, ic) THEN None
    ELSE FirstState(i, M(re, s, <<[pos |-> i, caps |-> NoCaps]>>, ic))

\* the least element of a non-empty set of integers
MinOf(S) == CHOOSE x \in S : \A y \in S : x <= y
MaxOf(S) == CHOOSE x \in S : \A y \in S : x >= y

\* the leftmost of the matches at[p] anchored at the positions p
Leftmost(at) ==
    LET hits == {p \in DOMAIN at : at[p] # None}
    IN  IF hits = {} THEN None ELSE at[MinOf(hits)]

\* pattern.search(s) from position i on: the leftmost match
SearchFrom(re, s, i, ic) == Leftmost([p \in i..(Len(s) + 1) |-> MatchAt(re, s, p, ic)])

\* pattern.search(s) is not None
Found(re, s, ic) == \E p \in 1..(Len(s) + 1) : MatchAt(re, s, p, ic) # None

Search(re, s, ic) == SearchFrom(re, s, 1, ic)

\* s[a:b) for positions a <= b
Slice(s, a, b) == SubSeq(s, a, b - 1)

\* m.group(n)
GroupOf(s, m, n) == Slice(s, m.caps[n][1], m.caps[n][2])

\* the matches of pattern.finditer(s): non-overlapping, left to right.
\* at[p] is the match anchored at p; the recursion is over the matches.
RECURSIVE MatchesFrom(_, _, _)
MatchesFrom(at, n, i) ==
    LET hits == {p \in i..n : at[p] # None}
    IN  IF hits = {} THEN <<>>
        ELSE LET m == at[MinOf(hits)][1]
             IN  <<m>> \o MatchesFrom(at, n, IF m.end > m.start THEN m.end ELSE m.end + 1)

FindIter(re, s, ic) ==
    MatchesFrom([p \in 1..(Len(s) + 1) |-> MatchAt(re, s, p, ic)], Len(s) + 1, 1)

\* pattern.findall(s) of a pattern with exactly one group: the group's text
GroupsOf(s, ms, n) == [k \in 1..Len(ms) |-> GroupOf(s, ms[k], n)]
FindAll1(re, s, ic) == GroupsOf(s, FindIter(re, s, ic), 1)

\* pattern.findall(s) of a pattern without groups: the whole match
WholeOf(s, ms) == [k \in 1..Len(ms) |-> Slice(s, ms[k].start, ms[k].end)]
FindAll0(re, s, ic) == WholeOf(s, FindIter(re, s, ic))

(***************************************************************************)
(* str helpers                                                             *)
(***************************************************************************)
\* str.strip()
Strip(s) ==
    IF \A i \in 1..Len(s) : s[i] \in Space THEN <<>>
    ELSE LET a == CHOOSE i \in 1..Len(s) : s[i] \notin Space /\ \A j \in 1..(i - 1) : s[j] \in Space
             b == CHOOSE i \in 1..Len(s) : s[i] \notin Space /\ \A j \in (i + 1)..Len(s) : s[j] \in Space
         IN  SubSeq(s, a, b)

\* s.replace(c, "") for one character c
Remove(s, c) == SelectSeq(s, LAMBDA x : x # c)

\* s.replace(a, b) for single characters
Replace(s, a, b) == [i \in 1..Len(s) |-> IF s[i] = a THEN b ELSE s[i]]

(***************************************************************************)
(* extraction.py: the money pattern and _parse_amount                     *)
(***************************************************************************)
CurrencySym == {"$", "GBP", "EUR", "JPY", "PHP", "INR", "KRW", "VND"}

\* (\d{1,7}(?:[,. ]\d{3})*[.,]\d{1,2})
MoneyGroup ==
    Grp(1, Cat(<<Rep(Set(Digit), 1, 7),
                 Star(Cat(<<Set({",", ".", " "}), Rep(Set(Digit), 3, 3)>>)),
                 Set({".", ","}),
                 Rep(Set(Digit), 1, 2)>>))

CURRENCY_RE == Cat(<<Opt(Set(CurrencySym)), Star(Set(Space)), MoneyGroup>>)

\* \d\.\d{3},\d{1,2}$
COMMA_DECIMAL_RE ==
    Cat(<<Set(Digit), Ch("."), Rep(Set(Digit), 3, 3), Ch(","), Rep(Set(Digit), 1, 2), Eos>>)

\* s.count(c)
Count(s, c) == Cardinality({i \in 1..Len(s) : s[i] = c})

RECURSIVE DigitsVal(_)
DigitsVal(s) == IF s = <<>> THEN 0 ELSE DigitsVal(SubSeq(s, 1, Len(s) - 1)) * 10 + DigitVal(s[Len(s)])

\* float(s) of a string of digits and dots, in hundredths; None on ValueError.
\* The strings reaching it have at most two digits after a single dot.
FloatOf(s) ==
    IF Count(s, ".") > 1 \/ s = <<>> THEN None
    ELSE IF Count(s, ".") = 0 THEN Some(DigitsVal(s) * 100)
    ELSE LET d == CHOOSE i \in 1..Len(s) : s[i] = "."
             ip == SubSeq(s, 1, d - 1)
             fp == SubSeq(s, d + 1, Len(s))
         IN  Some(DigitsVal(ip) * 100
                  + (IF Len(fp) = 1 THEN DigitsVal(fp) * 10 ELSE DigitsVal(fp)))

\* the tail of _parse_amount, on the matched group without its spaces
ParseDigits(s) ==
    IF Search(COMMA_DECIMAL_RE, s, FALSE) # None
    THEN FloatOf(Replace(Remove(s, "."), ",", "."))
    ELSE FloatOf(Remove(s, ","))

\* _parse_amount after _CURRENCY_RE.search(raw.strip()) gave m
ParseMatch(stripped, m) ==
    IF m = None THEN None
    ELSE ParseDigits(Remove(GroupOf(stripped, m[1], 1), " "))

parse_amount(raw) == ParseMatch(Strip(raw), Search(CURRENCY_RE, Strip(raw), FALSE))

(***************************************************************************)
(* extraction.py: noise lines                                              *)
(***************************************************************************)
NoiseWords == <<
    <<"s","u","b","t","o","t","a","l">>,
    <<"s","u","b"," ","t","o","t","a","l">>,
    <<"s","u","b","-","t","o","t","a","l">>,
    <<"t","o","t","a","l">>,
    <<"g","r","a","n","d"," ","t","o","t","a","l">>,
    <<"t","a","x">>,
    <<"g","s","t">>,
    <<"v","a","t">>,
    <<"s","a","l","e","s"," ","t","a","x">>,
    <<"h","s","t">>,
    <<"p","s","t">>,
    <<"t","i","p">>,
    <<"g","r","a","t","u","i","t","y">>,
    <<"s","e","r","v","i","c","e">>,
    <<"c","h","a","n","g","e">>,
    <<"c","a","s","h">>,
    <<"v","i","s","a">>,
    <<"m","a","s","t","e","r","c","a","r","d">>,
    <<"a","m","e","x">>,
    <<"d","e","b","i","t">>,
    <<"c","r","e","d","i","t">>,
    <<"c","a","r","d">>,
    <<"t","h","a","n","k">>,
    <<"y","o","u">>,
    <<"w","e","l","c","o","m","e">>,
    <<"c","o","m","e"," ","a","g","a","i","n">>,
    <<"r","e","f","u","n","d">>,
    <<"v","o","i","d">>,
    <<"d","a","t","e">>,
    <<"t","i","m","e">>,
    <<"r","e","c","e","i","p","t">>,
    <<"i","n","v","o","i","c","e">>,
    <<"o","r","d","e","r">>,
    <<"t","r","a","n","s","a","c","t","i","o","n">>,
    <<"t","e","r","m","i","n","a","l">>,
    <<"r","e","g","i","s","t","e","r">>,
    <<"t","e","l">>,
    <<"p","h","o","n","e">>,
    <<"f","a","x">>,
    <<"e","m","a","i","l">>,
    <<"w","w","w">>,
    <<"h","t","t","p">>>>

\* (?:^|\b)(subtotal|...|http)(?:\b|$), re.IGNORECASE
NOISE ==
    Cat(<<Alt(<<Bos, WordB>>),
          Grp(1, Alt([i \in 1..Len(NoiseWords) |-> Lit(NoiseWords[i])])),
          Alt(<<WordB, Eos>>)>>)

\* _NOISE.search(line)
\* the search without re.IGNORECASE
IsNoise_case_sensitive(line) == Found(NOISE, line, FALSE)

IsNoise(line) == Found(NOISE, line, TRUE)

(***************************************************************************)
(* extraction.py: line items                                               *)
(***************************************************************************)
ItemSym == {"$", "GBP", "EUR"}

\* (\d+[.,]\d{2})
PriceGroup(n) == Grp(n, Cat(<<Plus(Set(Digit)), Set({".", ","}), Rep(Set(Digit), 2, 2)>>))

\* [\$\£\€]?\s*(\d+[.,]\d{2})\s*$
PriceTail(n) == <<Opt(Set(ItemSym)), Star(Set(Space)), PriceGroup(n), Star(Set(Space)), Eos>>

\* [A-Za-z][\w\s/&\'-]{lo,40}?
NameChars == WordCh \cup Space \cup {"/", "&", "'", "-"}
NameGroup(n, lo) == Grp(n, Cat(<<Set(Alpha), Lazy(Set(NameChars), lo, 40)>>))

\* the pattern bank of extract_line_items, in its order
patterns == <<
    \* (\d+)\s*[xX×]\s+(.+?)\s+[\$\£\€]?\s*(\d+[.,]\d{2})\s*$
    Cat(<<Grp(1, Plus(Set(Digit))), Star(Set(Space)), Set({"x", "X", "TIMES"}),
          Plus(Set(Space)), Grp(2, Lazy(AnyCh, 1, Inf)), Plus(Set(Space))>>
        \o PriceTail(3)),
    \* (.+?)\s+(\d+)\s*@\s*[\$\£\€]?\s*\d+[.,]\d{2}\s+[\$\£\€]?\s*(\d+[.,]\d{2})\s*$
    Cat(<<Grp(1, Lazy(AnyCh, 1, Inf)), Plus(Set(Space)), Grp(2, Plus(Set(Digit))),
          Star(Set(Space)), Ch("@"), Star(Set(Space)), Opt(Set(ItemSym)),
          Star(Set(Space)), Plus(Set(Digit)), Set({".", ","}), Rep(Set(Digit), 2, 2),
          Plus(Set(Space))>>
        \o PriceTail(3)),
    \* ([A-Za-z][\w\s/&\'-]{1,40}?)\s{2,}(\d{1,4})\s+[\$\£\€]?\s*(\d+[.,]\d{2})\s*$
    Cat(<<NameGroup(1, 1), Rep(Set(Space), 2, Inf), Grp(2, Rep(Set(Digit), 1, 4)),
          Plus(Set(Space))>>
        \o PriceTail(3)),
    \* ([A-Za-z][\w\s/&\'-]{1,40}?)\s{2,}[\$\£\€]?\s*(\d+[.,]\d{2})\s*$
    Cat(<<NameGroup(1, 1), Rep(Set(Space), 2, Inf)>> \o PriceTail(2)),
    \* ([A-Za-z][\w\s/&\'-]{2,40}?)\s+[\$\£\€]?\s*(\d+[.,]\d{2})\s*$
    Cat(<<NameGroup(1, 2), Plus(Set(Space))>> \o PriceTail(2))
>>

\* round(a / b, 2) of hundredths a >= 0 by an integer b > 0 (ties to even)
RoundDiv(a, b) ==
    LET q == a \div b
        r == a % b
    IN  IF 2 * r < b THEN q
        ELSE IF 2 * r > b THEN q + 1
        ELSE IF q % 2 = 0 THEN q ELSE q + 1

\* text.split("\n")
SplitLines(s) ==
    LET nl == {i \in 1..Len(s) : s[i] = "\n"}
        \* the position of the k-th line break; 0 and Len(s) + 1 bracket the text
        brk(k) == IF k = 0 THEN 0
                  ELSE IF k > Cardinality(nl) THEN Len(s) + 1
                  ELSE CHOOSE p \in nl : Cardinality({q \in nl : q < p}) = k - 1
    IN  [k \in 1..(Cardinality(nl) + 1) |-> SubSeq(s, brk(k - 1) + 1, brk(k) - 1)]

\* a pattern loop that keeps the last pattern whose match() succeeds
FirstHit_last(ms) ==
    LET hits == {p \in 1..Len(ms) : ms[p] # None}
    IN  IF hits = {} THEN None ELSE Some(<<MaxOf(hits), ms[MaxOf(hits)][1]>>)

\* the pattern loop up to its first match: <<pidx, m>> for the first pattern
\* (1..5) whose match() succeeds on the line, None if none does
FirstHit(ms) ==
    LET hits == {p \in 1..Len(ms) : ms[p] # None}
    IN  IF hits = {} THEN None ELSE Some(<<MinOf(hits), ms[MinOf(hits)][1]>>)

FirstMatch(line) ==
    FirstHit([p \in 1..Len(patterns) |-> MatchAt(patterns[p], line, 1, FALSE)])

\* s[:n]
Prefix(s, n) == SubSeq(s, 1, Min(n, Len(s)))

\* an end of the loop body that appends the item whatever its total
MakeItem_any_total(pidx, name, qty, amount) ==
    IF amount = None THEN <<>>
    ELSE LET total_price == IF pidx = 3 THEN amount[1] * qty ELSE amount[1]
             unit_price == IF pidx \in {1, 2}
                           THEN (IF qty # 0 THEN RoundDiv(amount[1], qty) ELSE amount[1])
                           ELSE amount[1]
         IN  <<[name |-> Prefix(name, 60), quantity |-> qty,
                price |-> unit_price, total |-> total_price]>>

\* the end of the loop body: the items appended for a name, a quantity and
\* the parsed amount of the price column (none or one)
MakeItem(pidx, name, qty, amount) ==
    IF amount = None THEN <<>>    \* TypeError / None total: no item
    ELSE LET total_price == IF pidx = 3 THEN amount[1] * qty ELSE amount[1]
             unit_price == IF pidx \in {1, 2}
                           THEN (IF qty # 0 THEN RoundDiv(amount[1], qty) ELSE amount[1])
                           ELSE amount[1]
         IN  IF total_price <= 0 THEN <<>>
             ELSE <<[name |-> Prefix(name, 60), quantity |-> qty,
                     price |-> unit_price, total |-> total_price]>>

\* the body of the pattern loop for a stripped line whose first matching
\* pattern is pidx, with match m: the items the line appends (none or one)
ItemOfMatch(line, pidx, m) ==
    LET g(n) == GroupOf(line, m, n)
        qty == IF pidx = 1 THEN DigitsVal(g(1))
               ELSE IF pidx \in {2, 3} THEN DigitsVal(g(2))
               ELSE 1
        name == Strip(IF pidx = 1 THEN g(2) ELSE g(1))
    IN  MakeItem(pidx, name, qty, parse_amount(IF pidx \in {1, 2, 3} THEN g(3) ELSE g(2)))

ItemOfFirst(line, fm) == IF fm = None THEN <<>> ELSE ItemOfMatch(line, fm[1][1], fm[1][2])

\* one iteration of "for line in lines": the items this line appends
ItemsOfStripped(line) ==
    IF line = <<>> \/ Len(line) < 4 THEN <<>>
    ELSE IF IsNoise(line) THEN <<>>
    ELSE ItemOfFirst(line, FirstMatch(line))

ItemsOfLine(raw_line) == ItemsOfStripped(Strip(raw_line))

extract_line_items(text) ==
    LET lines == SplitLines(text)
    IN  Flatten([k \in 1..Len(lines) |-> ItemsOfLine(lines[k])])

(***************************************************************************)
(* extraction.py: merchant name                                            *)
(***************************************************************************)
merchant_kw == {
    <<"s","t","o","r","e">>,
    <<"m","a","r","k","e","t">>,
    <<"s","h","o","p">>,
    <<"m","a","r","t">>,
    <<"c","e","n","t","e","r">>,
    <<"s","u","p","e","r","c","e","n","t","e","r">>,
    <<"r","e","s","t","a","u","r","a","n","t">>,
    <<"c","a","f","e">>,
    <<"d","e","l","i">>,
    <<"p","h","a","r","m","a","c","y">>,
    <<"g","a","s">>,
    <<"s","t","a","t","i","o","n">>,
    <<"s","u","p","e","r","m","a","r","k","e","t">>,
    <<"b","a","k","e","r","y">>,
    <<"g","r","i","l","l">>,
    <<"p","i","z","z","a">>,
    <<"c","h","i","c","k","e","n">>,
    <<"d","o","l","l","a","r">>,
    <<"f","a","m","i","l","y">>,
    <<"f","o","o","d","s">>,
    <<"f","r","e","s","h">>,
    <<"w","h","o","l","e","s","a","l","e">>,
    <<"d","e","p","o","t">>,
    <<"o","u","t","l","e","t">>,
    <<"e","x","p","r","e","s","s">>,
    <<"s","t","o","p">>,
    <<"c","o","r","n","e","r">>,
    <<"i","n","c">>,
    <<"l","l","c">>,
    <<"l","t","d">>,
    <<"c","o","r","p">>,
    <<"c","o">>}

\* line.lower()
LowerStr(s) == [i \in 1..Len(s) |-> ToLower(s[i])]

\* kw in low
Contains(low, kw) ==
    \E i \in 1..(Len(low) - Len(kw) + 1) : SubSeq(low, i, i + Len(kw) - 1) = kw

\* re.sub(pattern, "", s) for a pattern that ends in $ and cannot match the
\* empty string: the text before the leftmost match
Before(s, m) == IF m = None THEN s ELSE SubSeq(s, 1, m[1].start - 1)
SubTail(re, s) == Before(s, Search(re, s, FALSE))

\* \s+[\$\£\€]?\s*\d+[.,]\d{2}\s*$
TRAILING_PRICE ==
    Cat(<<Plus(Set(Space)), Opt(Set(ItemSym)), Star(Set(Space)), Plus(Set(Digit)),
          Set({".", ","}), Rep(Set(Digit), 2, 2), Star(Set(Space)), Eos>>)

\* \s*[\(\d][\d\-\(\) ]{6,}$
TRAILING_PHONE ==
    Cat(<<Star(Set(Space)), Set(Digit \cup {"("}),
          Rep(Set(Digit \cup {"-", "(", ")", " "}), 6, Inf), Eos>>)

clean_merchant(raw) == Strip(SubTail(TRAILING_PHONE, raw))

\* [l.strip() for l in text.split("\n") if l.strip()]
NonEmptyLines(text) ==
    LET ls == SplitLines(text)
        stripped == [k \in 1..Len(ls) |-> Strip(ls[k])]
    IN  SelectSeq(stripped, LAMBDA l : l # <<>>)

\* the first element of seq that satisfies Test, as an optional
HeadOf(hit) == IF hit = <<>> THEN None ELSE Some(hit[1])
FirstWhere(seq, Test(_)) == HeadOf(SelectSeq(seq, Test))

StripPrice(line) == Strip(SubTail(TRAILING_PRICE, line))

\* sum(c.isalpha() or c == " " for c in clean) / len(clean) > 0.70
MostlyAlpha(clean) ==
    10 * Cardinality({i \in 1..Len(clean) : clean[i] \in Alpha \cup {" "}}) > 7 * Len(clean)

\* Strategy 1: keyword match in the first 6 lines
MerchantByKeyword(lines) ==
    FirstWhere(Prefix(lines, 6),
               LAMBDA line : /\ \E kw \in merchant_kw : Contains(LowerStr(line), kw)
                             /\ Len(StripPrice(line)) > 2)

\* Strategy 2: first line of the first 6 that is mostly letters and no noise
AlphaCandidate(line, clean) ==
    Len(line) >= 3 /\ Len(clean) >= 3 /\ MostlyAlpha(clean) /\ ~IsNoise(clean)

MerchantByAlpha(lines) ==
    FirstWhere(Prefix(lines, 6), LAMBDA line : AlphaCandidate(line, StripPrice(line)))

\* Last resort: first line of the first 3 longer than 3 characters
MerchantByFirstLine(lines) == FirstWhere(Prefix(lines, 3), LAMBDA line : Len(line) > 3)

\* bert: what self._bert.extract_merchant_bert(text) returns when the BERT
\* backend is enabled and available, None when self._bert is None or it
\* finds nothing
PickMerchant(s1, s2, s3, bert) ==
    IF s1 # None THEN Some(clean_merchant(StripPrice(s1[1])))
    ELSE IF s2 # None THEN Some(clean_merchant(StripPrice(s2[1])))
    ELSE IF s3 # None THEN Some(clean_merchant(s3[1]))
    ELSE bert

MerchantOfLines(lines, bert) ==
    PickMerchant(MerchantByKeyword(lines), MerchantByAlpha(lines),
                 MerchantByFirstLine(lines), bert)

extract_merchant(text, bert) == MerchantOfLines(NonEmptyLines(text), bert)

(***************************************************************************)
(* extraction.py: total and tax                                            *)
(***************************************************************************)
LabelSym == {"$", "GBP", "EUR", "JPY", "PHP", "INR"}

\* word1\s*word2
Words2(a, b) == Cat(<<Lit(a), Star(Set(Space)), Lit(b)>>)

total_labels == <<
    Words2(<<"g","r","a","n","d">>, <<"t","o","t","a","l">>),
    Words2(<<"t","o","t","a","l">>, <<"d","u","e">>),
    Words2(<<"a","m","o","u","n","t">>, <<"d","u","e">>),
    Words2(<<"b","a","l","a","n","c","e">>, <<"d","u","e">>),
    Words2(<<"n","e","t">>, <<"t","o","t","a","l">>),
    Words2(<<"a","m","t">>, <<"d","u","e">>),
    Words2(<<"t","o","t","a","l">>, <<"a","m","o","u","n","t">>),
    Words2(<<"t","o","t","a","l">>, <<"s","a","l","e">>),
    Lit(<<"t","o","t","a","l">>),
    Lit(<<"a","m","o","u","n","t">>),
    Lit(<<"d","u","e">>)
>>

tax_labels == <<
    Words2(<<"s","a","l","e","s">>, <<"t","a","x">>),
    Words2(<<"s","t","a","t","e">>, <<"t","a","x">>),
    Words2(<<"c","o","u","n","t","y">>, <<"t","a","x">>),
    Words2(<<"l","o","c","a","l">>, <<"t","a","x">>),
    Words2(<<"t","a","x">>, <<"a","m","o","u","n","t">>),
    Lit(<<"t","a","x">>),
    Lit(<<"g","s","t">>),
    Lit(<<"h","s","t">>),
    Lit(<<"p","s","t">>),
    Lit(<<"v","a","t">>)
>>

\* label + [:\s]* + [\$\£\€\¥\₱\₹]?\s* + (\d{1,7}(?:[,. ]\d{3})*[.,]\d{1,2})
LabelPattern(label) ==
    Cat(<<label, Star(Set(Space \cup {":"})), Opt(Set(LabelSym)), Star(Set(Space)),
          MoneyGroup>>)

\* one round of "for label in labels": the value the round returns, or None
\* when the loop goes on to the next label
Positive(val) == IF val # None /\ val[1] > 0 THEN val ELSE None

LastValue(matches) ==
    IF matches = <<>> THEN None ELSE Positive(parse_amount(matches[Len(matches)]))

LabelValue(label, text) == LastValue(FindAll1(LabelPattern(label), text, TRUE))

\* the label loop: the value of the first label, in list order, whose round
\* returns one
FirstSome(vals) ==
    LET hits == {k \in 1..Len(vals) : vals[k] # None}
    IN  IF hits = {} THEN None ELSE vals[MinOf(hits)]

ByLabels(labels, text) ==
    FirstSome([k \in 1..Len(labels) |-> LabelValue(labels[k], text)])

\* a fallback that takes the first positive value of the receipt
MaxPositive_first(parsed) ==
    LET hits == {j \in 1..Len(parsed) : parsed[j] # None /\ parsed[j][1] > 0}
    IN  IF hits = {} THEN None ELSE parsed[MinOf(hits)]

\* Fallback: the largest monetary value in the receipt
MaxPositive(parsed) ==
    LET values == {parsed[k][1] :
                      k \in {j \in 1..Len(parsed) : parsed[j] # None /\ parsed[j][1] > 0}}
    IN  IF values = {} THEN None ELSE Some(MaxOf(values))

ParseAll(all_amounts) == [k \in 1..Len(all_amounts) |-> parse_amount(all_amounts[k])]

LargestAmount(text) == MaxPositive(ParseAll(FindAll1(CURRENCY_RE, text, FALSE)))

TotalOr(labelled, text) == IF labelled # None THEN labelled ELSE LargestAmount(text)

extract_total(text) == TotalOr(ByLabels(total_labels, text), text)

extract_tax(text) == ByLabels(tax_labels, text)

(***************************************************************************)
(* extraction.py: confidence score                                         *)
(***************************************************************************)
\* confidences are integers in units of 1/10000
One == 10000
W_merchant == 1000
W_date == 1500
W_total == 2000
W_tax == 500
W_items == 1000

\* round(x, 2) of a value x given in 1/20000: the result in 1/10000
\* (ties to even; x may be negative)
Round2(x) ==
    LET q == x \div 200      \* floor
        r == x % 200
        h == IF r < 100 THEN q
             ELSE IF r > 100 THEN q + 1
             ELSE IF q % 2 = 0 THEN q ELSE q + 1
    IN  h * 100

\* a score that takes the weight of the total off instead of adding it
calculate_confidence_total_off(result, ocr_confidence) ==
    LET fields == ocr_confidence
                  + (IF result.merchant_name # None THEN 2 * W_merchant ELSE 0)
                  + (IF result.receipt_date # None THEN 2 * W_date ELSE 0)
                  - (IF result.total_amount # None THEN 2 * W_total ELSE 0)
                  + (IF result.tax_amount # None THEN 2 * W_tax ELSE 0)
        score == IF result.line_items # <<>>
                 THEN Min(2 * One, fields + 2 * W_items)
                 ELSE fields
    IN  Round2(Min(score, 2 * One))

\* a score without the cap at 1.0
calculate_confidence_uncapped(result, ocr_confidence) ==
    Round2(ocr_confidence
           + (IF result.merchant_name # None THEN 2 * W_merchant ELSE 0)
           + (IF result.receipt_date # None THEN 2 * W_date ELSE 0)
           + (IF result.total_amount # None THEN 2 * W_total ELSE 0)
           + (IF result.tax_amount # None THEN 2 * W_tax ELSE 0)
           + (IF result.line_items # <<>> THEN 2 * W_items ELSE 0))

\* result: the record built by extract; ocr_confidence in 1/10000
calculate_confidence(result, ocr_confidence) ==
    LET base == ocr_confidence      \* ocr_confidence * 0.5, in 1/20000
        fields == base
                  + (IF result.merchant_name # None THEN 2 * W_merchant ELSE 0)
                  + (IF result.receipt_date # None THEN 2 * W_date ELSE 0)
                  + (IF result.total_amount # None THEN 2 * W_total ELSE 0)
                  + (IF result.tax_amount # None THEN 2 * W_tax ELSE 0)
        score == IF result.line_items # <<>>
                 THEN Min(2 * One, fields + 2 * W_items)
                 ELSE fields
    IN  Round2(Min(score, 2 * One))

(***************************************************************************)
(* extraction.py: date.  dateutil's parser is modelled for the strings the *)
(* six date patterns can hand it: the digit runs and the month word of the *)
(* match, resolved as dateutil's _ymd.resolve_ymd does with dayfirst and   *)
(* yearfirst off.  now is datetime.now() as [year, month, day].            *)
(***************************************************************************)
\* re.sub(rf"(?<=\d){old}(?=\d)", new, s)
SubBetweenDigits(s, old, new) ==
    [i \in 1..Len(s) |->
        IF s[i] = old /\ i > 1 /\ i < Len(s) /\ s[i - 1] \in Digit /\ s[i + 1] \in Digit
        THEN new ELSE s[i]]

NormaliseDigits(text) ==
    SubBetweenDigits(SubBetweenDigits(SubBetweenDigits(SubBetweenDigits(
        text, "O", "0"), "l", "1"), "I", "1"), "S", "5")

MonthAbbr == <<
    <<"j","a","n">>, <<"f","e","b">>, <<"m","a","r">>, <<"a","p","r">>,
    <<"m","a","y">>, <<"j","u","n">>, <<"j","u","l">>, <<"a","u","g">>,
    <<"s","e","p">>, <<"o","c","t">>, <<"n","o","v">>, <<"d","e","c">>>>

MonthFull == <<
    <<"j","a","n","u","a","r","y">>, <<"f","e","b","r","u","a","r","y">>,
    <<"m","a","r","c","h">>, <<"a","p","r","i","l">>, <<"m","a","y">>,
    <<"j","u","n","e">>, <<"j","u","l","y">>, <<"a","u","g","u","s","t">>,
    <<"s","e","p","t","e","m","b","e","r">>, <<"o","c","t","o","b","e","r">>,
    <<"n","o","v","e","m","b","e","r">>, <<"d","e","c","e","m","b","e","r">>>>

AnyOf(words) == Alt([i \in 1..Len(words) |-> Lit(words[i])])
DateSep == Set({"-", "/"})

date_patterns == <<
    \* \d{4}[-/]\d{1,2}[-/]\d{1,2}
    Cat(<<Rep(Set(Digit), 4, 4), DateSep, Rep(Set(Digit), 1, 2), DateSep,
          Rep(Set(Digit), 1, 2)>>),
    \* \d{1,2}[-/]\d{1,2}[-/]\d{2,4}
    Cat(<<Rep(Set(Digit), 1, 2), DateSep, Rep(Set(Digit), 1, 2), DateSep,
          Rep(Set(Digit), 2, 4)>>),
    \* \d{1,2}\.\d{1,2}\.\d{2,4}
    Cat(<<Rep(Set(Digit), 1, 2), Ch("."), Rep(Set(Digit), 1, 2), Ch("."),
          Rep(Set(Digit), 2, 4)>>),
    \* \d{1,2}\s+(?:Jan|...|Dec)\w*\.?\s+\d{2,4}
    Cat(<<Rep(Set(Digit), 1, 2), Plus(Set(Space)), AnyOf(MonthAbbr), Star(Set(WordCh)),
          Opt(Ch(".")), Plus(Set(Space)), Rep(Set(Digit), 2, 4)>>),
    \* (?:Jan|...|Dec)\w*\.?\s+\d{1,2},?\s+\d{2,4}
    Cat(<<AnyOf(MonthAbbr), Star(Set(WordCh)), Opt(Ch(".")), Plus(Set(Space)),
          Rep(Set(Digit), 1, 2), Opt(Ch(",")), Plus(Set(Space)), Rep(Set(Digit), 2, 4)>>),
    \* (?:January|...|December)\s+\d{1,2},?\s+\d{2,4}
    Cat(<<AnyOf(MonthFull), Plus(Set(Space)), Rep(Set(Digit), 1, 2), Opt(Ch(",")),
          Plus(Set(Space)), Rep(Set(Digit), 2, 4)>>)
>>

\* the maximal runs of characters of class cs in s, left to right
Runs(s, cs) ==
    LET starts == {i \in 1..Len(s) : s[i] \in cs /\ (i = 1 \/ s[i - 1] \notin cs)}
        nth(k) == CHOOSE p \in starts : Cardinality({q \in starts : q < p}) = k - 1
        stop(p) == CHOOSE e \in p..Len(s) :
                      /\ \A j \in p..e : s[j] \in cs
                      /\ (e = Len(s) \/ s[e + 1] \notin cs)
    IN  [k \in 1..Cardinality(starts) |-> SubSeq(s, nth(k), stop(nth(k)))]

IsLeap(y) == (y % 4 = 0 /\ y % 100 # 0) \/ y % 400 = 0
DaysIn(y, m) ==
    IF m = 2 THEN (IF IsLeap(y) THEN 29 ELSE 28)
    ELSE IF m \in {4, 6, 9, 11} THEN 30 ELSE 31

\* dateutil parserinfo.convertyear
ConvertYear(year, century_specified, now) ==
    IF year < 100 /\ ~century_specified
    THEN LET y == year + (now.year \div 100) * 100
         IN  IF y >= now.year + 50 THEN y - 100
             ELSE IF y < now.year - 50 THEN y + 100
             ELSE y
    ELSE year

\* datetime(year, month, day): None on ValueError
MakeDate(y, m, d) ==
    IF y >= 1 /\ y <= 9999 /\ m >= 1 /\ m <= 12 /\ d >= 1 /\ d <= DaysIn(y, m)
    THEN Some([year |-> y, month |-> m, day |-> d])
    ELSE None

\* dateutil info.month(word): 1..12, or 0 when the word is no month name
MonthOf(word) ==
    LET low == LowerStr(word)
        hits == {k \in 1..12 : low = MonthAbbr[k] \/ low = MonthFull[k]}
    IN  IF low = <<"s","e","p","t">> THEN 9
        ELSE IF hits = {} THEN 0 ELSE MinOf(hits)

\* three numeric members v (in text order), isyear[k]: member k carries the
\* year label (a token of more than two digits, or a number above 100)
ResolveNumeric(v, isyear, now) ==
    LET ny == Cardinality({k \in 1..3 : isyear[k]})
        century == ny > 0
    IN  IF ny > 1 THEN None      \* ValueError: Year is already set
        ELSE IF v[1] > 31 \/ isyear[1]
             THEN MakeDate(ConvertYear(v[1], century, now), v[2], v[3])
        ELSE IF v[1] > 12
             THEN MakeDate(ConvertYear(v[3], century, now), v[2], v[1])
        ELSE MakeDate(ConvertYear(v[3], century, now), v[1], v[2])

\* two numbers a, b around a month (mpos = 1: month first, 2: month between)
ResolveWithMonth(month, a, b, mpos, now) ==
    LET ya == a > 100
        yb == b > 100
    IN  IF ya /\ yb THEN None
        ELSE IF ya THEN MakeDate(a, month, b)
        ELSE IF yb THEN MakeDate(b, month, a)
        ELSE IF mpos = 2
             THEN (IF a > 31 THEN MakeDate(ConvertYear(a, FALSE, now), month, b)
                   ELSE MakeDate(ConvertYear(b, FALSE, now), month, a))
        ELSE (IF a > 31 THEN MakeDate(ConvertYear(a, FALSE, now), month, b)
              ELSE MakeDate(ConvertYear(b, FALSE, now), month, a))

\* two numbers and no month (the month word is skipped by fuzzy parsing);
\* the missing member comes from now, a missing day clamped to the month
ResolveTwo(a, b, now) ==
    LET ya == a > 100
        yb == b > 100
        clamp(y, m) == IF m >= 1 /\ m <= 12 /\ y >= 1 /\ y <= 9999
                       THEN MakeDate(y, m, Min(now.day, DaysIn(y, m)))
                       ELSE None
    IN  IF ya /\ yb THEN None
        ELSE IF a > 31 THEN clamp(ConvertYear(a, ya \/ yb, now), b)
        ELSE IF b > 31 THEN clamp(ConvertYear(b, ya \/ yb, now), a)
        ELSE MakeDate(now.year, a, b)

\* date_parser.parse(match, fuzzy=True, dayfirst=False) for a match of
\* date_patterns[p]: None when it raises
DateParse(match, p, now) ==
    LET nums == Runs(match, Digit)
        val(k) == DigitsVal(nums[k])
    IN  IF p \in {1, 2, 3}
        THEN LET seps == SelectSeq(match, LAMBDA c : c \notin Digit)
                 joined == seps[1] = seps[2]
             IN  ResolveNumeric(<<val(1), val(2), val(3)>>,
                                <<Len(nums[1]) > 2, Len(nums[2]) > 2,
                                  IF joined THEN Len(nums[3]) > 2 ELSE val(3) > 100>>,
                                now)
        ELSE LET words == Runs(match, Alpha)
                 months == SelectSeq([k \in 1..Len(words) |-> MonthOf(words[k])],
                                     LAMBDA m : m # 0)
                 n == Len(nums)
             IN  IF Len(months) > 1 THEN None       \* ValueError: Month is already set
                 ELSE IF Len(months) = 1
                      THEN (IF n = 2
                            THEN ResolveWithMonth(months[1], val(1), val(2),
                                                  IF p = 4 THEN 2 ELSE 1, now)
                            ELSE None)              \* more than three members
                 ELSE IF n = 2 THEN ResolveTwo(val(1), val(2), now)
                 ELSE IF n = 3
                      THEN ResolveNumeric(<<val(1), val(2), val(3)>>,
                                          <<val(1) > 100, val(2) > 100, val(3) > 100>>, now)
                 ELSE None

\* the decimal digits of n in 0..9999, at least width of them
Digits(n, width) ==
    LET dg(k) == DigitSeq[((n \div k) % 10) + 1]
        all == <<dg(1000), dg(100), dg(10), dg(1)>>
        len == IF n >= 1000 THEN 4 ELSE IF n >= 100 THEN 3 ELSE IF n >= 10 THEN 2 ELSE 1
    IN  SubSeq(all, 5 - Max(len, width), 4)

\* parsed.strftime("%Y-%m-%d") (glibc: %Y is not zero-padded)
FormatDate(d) == Digits(d.year, 1) \o <<"-">> \o Digits(d.month, 2) \o <<"-">> \o Digits(d.day, 2)

\* a sanity check that compares with the wrong bound
TooFarAhead_by_five(parsed, now) == parsed.year > now.year + 5

\* the sanity check of extract_date: reject dates far in the future
TooFarAhead(parsed, now) == parsed.year > now.year + 1

\* a loop body without the except clause: the parser's error leaves the
\* function in place of a date
Accepted_uncaught(parsed, now) ==
    IF parsed = None THEN Some(<<"ValueError">>)
    ELSE IF TooFarAhead(parsed[1], now) THEN None
    ELSE Some(FormatDate(parsed[1]))

\* one match of one pattern: the date the loop returns on it, or None when
\* the loop continues (parse error, or a rejected year)
Accepted(parsed, now) ==
    IF parsed = None THEN None
    ELSE IF TooFarAhead(parsed[1], now) THEN None
    ELSE Some(FormatDate(parsed[1]))

DateOfMatch(match, p, now) == Accepted(DateParse(match, p, now), now)

\* the matches of pattern p in the text, each with what the loop does on it
DatesOf(matches, p, now) == [k \in 1..Len(matches) |-> DateOfMatch(matches[k], p, now)]

FirstDate(tried) == HeadOf(SelectSeq(tried, LAMBDA d : d # None))

DatesIn(normalised, now) ==
    Flatten([p \in 1..Len(date_patterns) |->
        DatesOf(FindAll0(date_patterns[p], normalised, TRUE), p, now)])

extract_date(text, now) ==
    LET first == FirstDate(DatesIn(NormaliseDigits(text), now))
    IN  IF first = None THEN None ELSE first[1]

(***************************************************************************)
(* extraction.py: NLPExtractor.extract                                     *)
(***************************************************************************)
\* the five field extractors of extract, before the confidence is computed
extract_fields(text, bert, now) ==
    [merchant_name |-> extract_merchant(text, bert),
     receipt_date |-> extract_date(text, now),
     total_amount |-> extract_total(text),
     tax_amount |-> extract_tax(text),
     line_items |-> extract_line_items(text)]

(***************************************************************************)
(* ocr.py.  A recognition backend is deterministic: what it does on an     *)
(* image is part of the image.  A variant is [tess, easy], the outcome of  *)
(* pytesseract.image_to_data and of Reader.readtext on it; an outcome is   *)
(* [ok, text, conf]: ok is FALSE when the call raises, text names the      *)
(* transcript the backend reads, conf is its mean confidence.              *)
(***************************************************************************)
Failed == [ok |-> FALSE, text |-> "", conf |-> 0]
Read(text, conf) == [ok |-> TRUE, text |-> text, conf |-> conf]

\* n words "ab" separated by single spaces
Words(n) == Flatten([k \in 1..n |-> IF k = 1 THEN <<"a", "b">> ELSE <<" ", "a", "b">>])

JoinLines(lines) == Flatten([k \in 1..Len(lines) |-> IF k = 1 THEN lines[k] ELSE <<"\n">> \o lines[k]])

\* n spaces
Gap(n) == [i \in 1..n |-> " "]

\* the transcripts the backends of the model read, by name
Transcript ==
    [w1 |-> Words(1),
     w50 |-> Words(50),
     w101 |-> Words(101),
     blank |-> <<>>,
     receipt |-> JoinLines(<<
        <<"A","C","M","E"," "," ","M","A","R","T">>,
        <<" ","0","1","/","1","5","/","2","0","2","5"," ">>,
        <<>>,
        <<"T","e","a"," ","\t"," ","2",".","5","0">>,
        <<"M","i","l","k"," "," ","2"," "," ","2",".","4","9">>,
        <<"T","A","X"," "," ","0",".","2","0">>,
        <<"T","O","T","A","L"," "," ","2",".","7","0">>>>),
     smudged |-> JoinLines(<<
        <<"A","C","M","E">>,
        <<"T","O","T","A","L"," ","2",".","7","O">>>>),
     scribble |-> <<"%","#"," ","1">>,
     \* the receipt of test_local.py with two items
     walmart |-> JoinLines(<<
        <<"W","A","L","M","A","R","T"," ","S","U","P","E","R","C","E","N","T","E","R">>,
        <<"D","a","t","e",":"," ","0","1","/","1","5","/","2","0","2","5">>,
        <<"M","i","l","k"," ","2","%">> \o Gap(19) \o <<"$","3",".","4","9">>,
        <<"B","r","e","a","d"," ","W","h","e","a","t">> \o Gap(16) \o <<"$","2",".","9","9">>,
        <<"S","U","B","T","O","T","A","L">> \o Gap(17) \o <<"$","6",".","4","8">>,
        <<"T","A","X">> \o Gap(23) \o <<"$","0",".","5","2">>,
        <<"T","O","T","A","L">> \o Gap(21) \o <<"$","7",".","0","0">>>>)]

\* len(text.split())
WordCount(text) ==
    Cardinality({i \in 1..Len(text) :
        text[i] \notin Space /\ (i = 1 \/ text[i - 1] \in Space)})

\* re.sub(r"[ \t]+", " ", line)
CollapseBlanks(line) ==
    LET blank(i) == line[i] \in {" ", "\t"}
        marked == [i \in 1..Len(line) |->
                     [c |-> IF blank(i) THEN " " ELSE line[i],
                      keep |-> ~(blank(i) /\ i > 1 /\ blank(i - 1))]]
        kept == SelectSeq(marked, LAMBDA m : m.keep)
    IN  [i \in 1..Len(kept) |-> kept[i].c]

\* a cleaning that hands the text back as it is
clean_text_untouched(text) == text

clean_text(text) ==
    LET lines == SplitLines(text)
        cleaned == [k \in 1..Len(lines) |-> Strip(CollapseBlanks(lines[k]))]
    IN  JoinLines(SelectSeq(cleaned, LAMBDA l : l # <<>>))

NoReader == "None"

\* the selection score of one attempt: conf * (1.0 + min(word_count / 100, 1.0))
Score(conf, word_count) == (conf * (100 + Min(word_count, 100))) \div 100

\* a comparison that lets a later attempt of equal score win
IsBetter_or_equal(score, best_conf) == score >= best_conf

IsBetter(score, best_conf) == score > best_conf

FALLBACK_BELOW == 4500

\* the condition under which extract_text tries EasyOCR after the loop
WantsFallback(best_conf, engine, variants) ==
    best_conf < FALLBACK_BELOW /\ engine # "easyocr" /\ Len(variants) > 0

\* _run_single: TRUE when the call goes to _run_easyocr
UsesEasyocr(engine, tess_ok) == engine = "easyocr" \/ ~tess_ok

\* a construction that stores the handle and raises all the same
construct_reader_raising(installed) == [reader |-> "Reader", raised |-> TRUE]

\* easyocr.Reader(["en"], ...) inside _init_easyocr: the handle stored and
\* whether the construction raised
construct_reader(installed) ==
    [reader |-> IF installed THEN "Reader" ELSE NoReader, raised |-> ~installed]

\* the body of the variant loop once _run_single returned or raised
\* (invoked: the backend was called at all)
AfterVariant(s, o, backend, invoked) ==
    LET text == Transcript[o.text]
        score == Score(o.conf, WordCount(text))
        won == o.ok /\ IsBetter(score, s.best_conf)
        idx == s.idx + 1
    IN  [s EXCEPT !.best_conf = IF won THEN score ELSE @,
                  !.best_text = IF won THEN text ELSE @,
                  !.best_engine = IF won THEN s.engine ELSE @,
                  !.calls = IF invoked THEN Append(@, <<backend, s.idx>>) ELSE @,
                  !.idx = idx,
                  !.pc = IF idx > Len(s.variants) THEN "fallback" ELSE "ocr"]

\* the fallback block once _run_easyocr(variants[0]) returned or raised
AfterFallback(s, o, invoked) ==
    LET adopt == o.ok /\ o.conf > s.best_conf
    IN  [s EXCEPT !.best_conf = IF adopt THEN o.conf ELSE @,
                  !.best_text = IF adopt THEN Transcript[o.text] ELSE @,
                  !.best_engine = IF adopt THEN "easyocr" ELSE @,
                  !.calls = IF invoked THEN Append(@, <<"easyocr", 1>>) ELSE @,
                  !.pc = "finish"]

\* the record extract_text returns
ocr_result(best_text, best_conf, best_engine) ==
    LET cleaned == clean_text(best_text)
    IN  [raw_text |-> cleaned,
         raw_text_with_lines |-> best_text,
         confidence |-> Min(best_conf, One),
         engine |-> best_engine,
         word_count |-> WordCount(cleaned)]

\* the transcripts of the uploads below, as extract_text hands them on
KnownTexts ==
    {clean_text(Transcript[n]) : n \in {"receipt", "smudged", "scribble", "blank"}}
    \cup {Transcript.walmart}

Today == [year |-> 2026, month |-> 11, day |-> 2]

\* extract_fields on the texts the pipeline meets, computed once
Known == [text \in KnownTexts |-> extract_fields(text, None, Today)]

Fields(text, bert, now) ==
    IF bert = None /\ now = Today /\ text \in KnownTexts
    THEN Known[text]
    ELSE extract_fields(text, bert, now)

extract(text, ocr_confidence, bert, now) ==
    LET result == Fields(text, bert, now)
    IN  [merchant_name |-> result.merchant_name,
         receipt_date |-> result.receipt_date,
         total_amount |-> result.total_amount,
         tax_amount |-> result.tax_amount,
         line_items |-> result.line_items,
         confidence_score |-> calculate_confidence(result, ocr_confidence)]

(***************************************************************************)
(* preprocessing.py, receipt_processor.py, app.py.  Uploaded bytes are     *)
(* [kind, views]: empty, not an image, or an image together with the three *)
(* variants the enhancement strategies make of it.                         *)
(***************************************************************************)
Variant(tess, easy) == [tess |-> tess, easy |-> easy]

Uploads == <<
    [kind |-> "empty", views |-> <<>>],
    [kind |-> "garbage", views |-> <<>>],
    \* a clear photo
    [kind |-> "image", views |-> <<
        Variant(Read("receipt", 9200), Read("receipt", 8000)),
        Variant(Read("smudged", 3000), Read("smudged", 5000)),
        Variant(Failed, Read("receipt", 7000))>>],
    \* a faint photo: Tesseract reads next to nothing
    [kind |-> "image", views |-> <<
        Variant(Read("scribble", 2000), Read("receipt", 6000)),
        Variant(Read("blank", 0), Failed),
        Variant(Failed, Read("scribble", 1000))>>],
    \* a photo on which every backend call raises
    [kind |-> "image", views |-> <<
        Variant(Failed, Failed), Variant(Failed, Failed), Variant(Failed, Failed)>>]
>>

\* a decoder that hands back whatever it was given
bytes_to_image_lenient(bytes) == Some(bytes)

\* the decoded image, or None for the ValueError
bytes_to_image(bytes) == IF bytes.kind = "image" THEN Some(bytes) ELSE None

\* the variants list, or None when bytes_to_image raises
process_for_ocr(bytes) ==
    LET original == bytes_to_image(bytes)
    IN  IF original = None THEN None ELSE Some(original[1].views)

OCR_ENGINE == "tesseract"
CONFIDENCE_THRESHOLD == 7000

Workers == {1, 2}

Idle ==
    [pc |-> "idle", upload |-> 0, engine |-> "", threshold |-> 0,
     variants |-> <<>>, idx |-> 0, phase |-> "", best_text |-> <<>>,
     best_conf |-> 0, best_engine |-> "", calls |-> <<>>, ocr |-> None,
     result |-> None, warned |-> FALSE, status |-> 0, error |-> ""]

\* the end of a request: the locals of the call are gone
Done(s, status, error) ==
    [s EXCEPT !.pc = "done", !.variants = <<>>, !.idx = 0, !.phase = "",
              !.best_text = <<>>, !.best_conf = 0, !.best_engine = "",
              !.status = status, !.error = error]

\* app.py process_receipt up to the call of processor.process_receipt
handle_upload(is_image, u, ocr_engine, confidence_threshold) ==
    IF ~is_image
    THEN Done([Idle EXCEPT !.upload = u], 400, "File must be an image")
    ELSE IF Uploads[u].kind = "empty"
    THEN Done([Idle EXCEPT !.upload = u], 400, "Empty file received")
    ELSE [Idle EXCEPT !.pc = "preprocess", !.upload = u,
                      !.engine = IF ocr_engine = "" THEN OCR_ENGINE ELSE ocr_engine,
                      !.threshold = IF confidence_threshold = 0
                                    THEN CONFIDENCE_THRESHOLD ELSE confidence_threshold]

\* the first lines of extract_text
start_ocr(s, variants, engine) ==
    [s EXCEPT !.variants = variants, !.engine = engine, !.idx = 1,
              !.best_text = <<>>, !.best_conf = 0 - One, !.best_engine = engine,
              !.calls = <<>>, !.ocr = None,
              !.pc = IF Len(variants) = 0 THEN "fallback" ELSE "ocr"]

\* a step 4 that refuses a score below the threshold
combine_strict(extracted, raw_text, confidence_threshold) ==
    [result |-> [merchant_name |-> extracted.merchant_name,
                 receipt_date |-> extracted.receipt_date,
                 total_amount |-> extracted.total_amount,
                 tax_amount |-> extracted.tax_amount,
                 line_items |-> extracted.line_items,
                 raw_text |-> raw_text,
                 confidence_score |-> extracted.confidence_score],
     warned |-> extracted.confidence_score < confidence_threshold,
     raised |-> extracted.confidence_score < confidence_threshold]

\* step 4 of process_receipt: the record, the warning, and whether it raised
combine(extracted, raw_text, confidence_threshold) ==
    [result |-> [merchant_name |-> extracted.merchant_name,
                 receipt_date |-> extracted.receipt_date,
                 total_amount |-> extracted.total_amount,
                 tax_amount |-> extracted.tax_amount,
                 line_items |-> extracted.line_items,
                 raw_text |-> raw_text,
                 confidence_score |-> extracted.confidence_score],
     warned |-> extracted.confidence_score < confidence_threshold,
     raised |-> FALSE]

\* ReceiptData's constraint on confidence_score (ge=0.0, le=1.0)
ValidReceiptData(result) == result.confidence_score >= 0 /\ result.confidence_score <= One

(***************************************************************************)
(* The requests.  Each runs the steps of app.py's handler and of           *)
(* process_receipt on its own; the steps of extract_text run in a worker   *)
(* thread (asyncio.to_thread) and interleave with those of other requests. *)
(***************************************************************************)
Pipeline == <<tesseract_available, easyocr_installed, easyocr_reader, constructions,
             init_failed, req>>
Harness == <<arg, ret, fn>>

EngineParams == {"", "easyocr"}
ThresholdParams == {0, 9500}

\* POST /process-receipt arrives at a free worker
Receive(r) ==
    /\ req[r].pc \in {"idle", "done"}
    /\ \E is_image \in BOOLEAN, u \in 1..Len(Uploads),
          ocr_engine \in EngineParams, confidence_threshold \in ThresholdParams :
          req' = [req EXCEPT ![r] = handle_upload(is_image, u, ocr_engine, confidence_threshold)]
    /\ UNCHANGED <<today, Harness, tesseract_available, easyocr_installed,
                   easyocr_reader, constructions, init_failed>>

\* process_receipt step 1, and the entry of extract_text
Preprocess(r) ==
    LET s == req[r]
        out == process_for_ocr(Uploads[s.upload])
    IN  /\ s.pc = "preprocess"
        /\ req' = [req EXCEPT ![r] =
                      IF out = None THEN Done(s, 500, "ValueError")
                      ELSE start_ocr(s, out[1], s.engine)]
        /\ UNCHANGED <<today, Harness, tesseract_available, easyocr_installed,
                       easyocr_reader, constructions, init_failed>>

\* one iteration of the variant loop; a call that needs EasyOCR and finds no
\* reader goes on to construct one
RunVariant(r) ==
    LET s == req[r]
        img == s.variants[s.idx]
    IN  /\ s.pc = "ocr"
        /\ req' = [req EXCEPT ![r] =
                      IF UsesEasyocr(s.engine, tesseract_available)
                      THEN (IF easyocr_reader = NoReader
                            THEN [s EXCEPT !.pc = "construct", !.phase = "loop"]
                            ELSE AfterVariant(s, img.easy, "easyocr", TRUE))
                      ELSE AfterVariant(s, img.tess, "tesseract", TRUE)]
        /\ UNCHANGED <<today, Harness, tesseract_available, easyocr_installed,
                       easyocr_reader, constructions, init_failed>>

\* the fallback decision after the loop
Fallback(r) ==
    LET s == req[r]
    IN  /\ s.pc = "fallback"
        /\ req' = [req EXCEPT ![r] =
                      IF WantsFallback(s.best_conf, s.engine, s.variants)
                      THEN (IF easyocr_reader = NoReader
                            THEN [s EXCEPT !.pc = "construct", !.phase = "fallback"]
                            ELSE AfterFallback(s, s.variants[1].easy, TRUE))
                      ELSE [s EXCEPT !.pc = "finish"]]
        /\ UNCHANGED <<today, Harness, tesseract_available, easyocr_installed,
                       easyocr_reader, constructions, init_failed>>

\* _init_easyocr after it saw no reader, then readtext if it did not raise
ConstructReader(r) ==
    LET s == req[r]
        made == construct_reader(easyocr_installed)
        img == s.variants[IF s.phase = "loop" THEN s.idx ELSE 1]
        o == IF made.raised THEN Failed ELSE img.easy
    IN  /\ s.pc = "construct"
        /\ easyocr_reader' = IF made.reader = NoReader THEN easyocr_reader ELSE made.reader
        /\ constructions' = IF made.reader = NoReader THEN constructions ELSE constructions + 1
        /\ init_failed' = (init_failed \/ made.raised)
        /\ req' = [req EXCEPT ![r] =
                      IF s.phase = "loop"
                      THEN [AfterVariant(s, o, "easyocr", ~made.raised) EXCEPT !.phase = ""]
                      ELSE [AfterFallback(s, o, ~made.raised) EXCEPT !.phase = ""]]
        /\ UNCHANGED <<today, Harness, tesseract_available, easyocr_installed>>

\* the end of extract_text
Finish(r) ==
    LET s == req[r]
    IN  /\ s.pc = "finish"
        /\ req' = [req EXCEPT ![r] =
                      [s EXCEPT !.pc = "extract",
                                !.ocr = Some(ocr_result(s.best_text, s.best_conf, s.best_engine))]]
        /\ UNCHANGED <<today, Harness, tesseract_available, easyocr_installed,
                       easyocr_reader, constructions, init_failed>>

\* process_receipt steps 3 and 4, and the handler's response
Respond(s, out) ==
    IF out.raised THEN Done(s, 500, "Exception")
    ELSE Done([s EXCEPT !.result = Some(out.result), !.warned = out.warned],
              IF ValidReceiptData(out.result) THEN 200 ELSE 500,
              IF ValidReceiptData(out.result) THEN "" ELSE "ValidationError")

Extract(r) ==
    /\ req[r].pc = "extract"
    /\ req[r].upload # 0
    /\ req' = [req EXCEPT ![r] =
                  Respond(req[r],
                          combine(extract(req[r].ocr[1].raw_text, req[r].ocr[1].confidence,
                                          None, today),
                                  req[r].ocr[1].raw_text, req[r].threshold))]
    /\ UNCHANGED <<today, Harness, tesseract_available, easyocr_installed,
                   easyocr_reader, constructions, init_failed>>

Init ==
    /\ today = Today
    /\ arg = <<>> /\ ret = <<>> /\ fn = "none"
    /\ tesseract_available \in BOOLEAN
    /\ easyocr_installed \in BOOLEAN
    /\ easyocr_reader = NoReader
    /\ constructions = 0
    /\ init_failed = FALSE
    /\ req = [r \in Workers |-> Idle]

Next ==
    \E r \in Workers :
        \/ Receive(r)
        \/ Preprocess(r)
        \/ RunVariant(r)
        \/ ConstructReader(r)
        \/ Fallback(r)
        \/ Finish(r)
        \/ Extract(r)

Spec == Init /\ [][Next]_vars


(***************************************************************************)
(* Claims about the requests (specification Spec).                         *)
(***************************************************************************)
\* the outcome of the k-th backend call a request made, from the image it
\* was made on
OutcomeOfCall(s, k) ==
    IF s.calls[k][1] = "easyocr"
    THEN s.variants[s.calls[k][2]].easy
    ELSE s.variants[s.calls[k][2]].tess

\* every backend call extract_text attempted in this request failed: each
\* call that reached a backend raised, and so did every call that did not
\* reach one (no reader could be constructed)
AllFailed(s) == \A k \in 1..Len(s.calls) : ~OutcomeOfCall(s, k).ok

\* C3: when the backend fails on every variant and every fallback that is
\* attempted fails too, extract_text returns no record (it raises instead).
C3_AllFailedRaises ==
    \A r \in Workers :
        (req[r].pc = "extract" /\ AllFailed(req[r])) => req[r].ocr = None

\* C4: every record extract_text returns has confidence in [0,1], and every
\* result process_receipt returns has confidence_score in [0,1].
C4_ConfidenceInRange ==
    \A r \in Workers :
        /\ req[r].ocr # None =>
              (req[r].ocr[1].confidence >= 0 /\ req[r].ocr[1].confidence <= One)
        /\ req[r].result # None =>
              (req[r].result[1].confidence_score >= 0
               /\ req[r].result[1].confidence_score <= One)

\* two finished requests for the same bytes and the same engine
SameRequest(r1, r2) ==
    /\ req[r1].pc = "done" /\ req[r2].pc = "done"
    /\ req[r1].upload = req[r2].upload
    /\ req[r1].engine = req[r2].engine
    /\ req[r1].engine # ""

\* C8: two invocations of process_receipt on the same bytes with the same
\* engine and threshold return identical results and end alike, whatever
\* requests ran before or between them and whoever constructed the reader.
C8_Idempotent ==
    \A r1, r2 \in Workers :
        (SameRequest(r1, r2) /\ req[r1].threshold = req[r2].threshold) =>
            /\ req[r1].result = req[r2].result
            /\ req[r1].ocr = req[r2].ocr
            /\ req[r1].status = req[r2].status
            /\ req[r1].error = req[r2].error

\* two answered requests for the same photo with equal parameters, one of
\* which ran while the reader did not exist yet and one of which found it
C8_Witness ==
    \E r1, r2 \in Workers :
        /\ r1 # r2
        /\ SameRequest(r1, r2) /\ req[r1].threshold = req[r2].threshold
        /\ Uploads[req[r1].upload].kind = "image"
        /\ req[r1].result # None /\ req[r1].result[1].line_items # <<>>
        /\ req[r1].ocr[1].engine = "easyocr"
        /\ constructions = 1

InputErrors == {"File must be an image", "Empty file received", "ValueError"}

\* C9: a request whose bytes are empty or do not decode ends in an input
\* error; no backend is invoked, OCR and extraction do not run.
C9_BadBytesNoBackend ==
    \A r \in Workers :
        (req[r].upload # 0 /\ Uploads[req[r].upload].kind # "image") =>
            /\ req[r].pc \in {"preprocess", "done"}
            /\ req[r].calls = <<>>
            /\ req[r].ocr = None
            /\ req[r].result = None
            /\ req[r].pc = "done" =>
                  (req[r].status \in {400, 500} /\ req[r].error \in InputErrors)

\* bytes that do not decode went through preprocessing and ended the request,
\* and empty bytes ended another
C9_Witness ==
    \E r1, r2 \in Workers :
        /\ req[r1].pc = "done" /\ req[r1].upload # 0
        /\ Uploads[req[r1].upload].kind = "garbage"
        /\ req[r1].error = "ValueError"
        /\ req[r2].pc = "done" /\ req[r2].upload # 0
        /\ Uploads[req[r2].upload].kind = "empty"
        /\ req[r2].error = "Empty file received"

\* C10: the record process_receipt returns does not depend on the
\* threshold: requests for the same bytes and engine return the same record
\* and end alike under every threshold; a score below the threshold is
\* warned about and nothing else.
C10_ThresholdOnlyWarns ==
    \A r1, r2 \in Workers :
        SameRequest(r1, r2) =>
            /\ req[r1].result = req[r2].result
            /\ req[r1].status = req[r2].status
            /\ req[r1].result # None =>
                  (req[r1].warned <=>
                      req[r1].result[1].confidence_score < req[r1].threshold)

\* the same photo answered under two thresholds, the score between them
C10_Witness ==
    \E r1, r2 \in Workers :
        /\ SameRequest(r1, r2)
        /\ req[r1].threshold < req[r2].threshold
        /\ req[r1].result # None /\ req[r1].status = 200
        /\ ~req[r1].warned /\ req[r2].warned


(***************************************************************************)
(* extract_text on its own (specification SpecOcr): one call, on a list of *)
(* at most MaxVariants variants whose backend outcomes are drawn from the  *)
(* sets below, with either engine, each backend available or not, and the  *)
(* reader constructed by an earlier call or not.                           *)
(***************************************************************************)
MaxVariants == 3

\* scores 0.3, 0.75 and 0.75 (0.5 * 1.5 and 0.375 * 2.0 are the same
\* floating-point number)
TessOutcomes == {Failed, Read("w101", 1500), Read("w50", 5000), Read("w101", 3750)}
EasyOutcomes == {Failed, Read("w1", 4000)}

VariantLists ==
    UNION {[1..n -> {Variant(t, e) : t \in TessOutcomes, e \in EasyOutcomes}] :
              n \in 0..MaxVariants}

InitOcr ==
    /\ today = Today
    /\ arg = <<>> /\ ret = <<>> /\ fn = "none"
    /\ tesseract_available \in BOOLEAN
    /\ easyocr_installed \in BOOLEAN
    /\ \E made \in BOOLEAN :
          /\ made => easyocr_installed
          /\ easyocr_reader = IF made THEN "Reader" ELSE NoReader
          /\ constructions = IF made THEN 1 ELSE 0
    /\ init_failed = FALSE
    /\ \E variants \in VariantLists, engine \in {"tesseract", "easyocr"} :
          req = [r \in Workers |->
                    IF r = 1 THEN start_ocr(Idle, variants, engine) ELSE Idle]

NextOcr ==
    \E r \in Workers :
        \/ RunVariant(r)
        \/ ConstructReader(r)
        \/ Fallback(r)
        \/ Finish(r)

SpecOcr == InitOcr /\ [][NextOcr]_vars

\* what the backend the loop uses makes of variant k
UsedOutcome(s, k) ==
    IF s.engine = "easyocr" \/ ~tesseract_available
    THEN (IF easyocr_installed THEN s.variants[k].easy ELSE Failed)
    ELSE s.variants[k].tess

ScoreOfVariant(s, k) ==
    Score(UsedOutcome(s, k).conf, WordCount(Transcript[UsedOutcome(s, k).text]))

Succeeded(s) == {k \in 1..Len(s.variants) : UsedOutcome(s, k).ok}

\* the earliest variant of maximal score among those whose call succeeded
Winner(s) ==
    CHOOSE k \in Succeeded(s) :
        \A j \in Succeeded(s) :
            \/ ScoreOfVariant(s, k) > ScoreOfVariant(s, j)
            \/ (ScoreOfVariant(s, k) = ScoreOfVariant(s, j) /\ k <= j)

\* the record returned is not the fallback's
NoneAdopted(s) == s.engine = "easyocr" \/ s.ocr[1].engine # "easyocr"

\* C2: when no fallback result is adopted and some call of the loop
\* succeeded, the text extract_text returns is the transcript of the
\* earliest variant of maximal score conf * (1 + min(word_count/100, 1)).
C2_BestVariantWins ==
    \A r \in Workers :
        (req[r].pc = "extract" /\ NoneAdopted(req[r]) /\ Succeeded(req[r]) # {}) =>
            /\ req[r].ocr[1].raw_text_with_lines =
                  Transcript[UsedOutcome(req[r], Winner(req[r])).text]
            /\ req[r].ocr[1].raw_text =
                  clean_text(Transcript[UsedOutcome(req[r], Winner(req[r])).text])

\* three variants scoring 0.3, 0.75 and 0.75: the second one's transcript is
\* returned, not the first's and not the equally scored third's
C2_Witness ==
    \E r \in Workers :
        /\ req[r].pc = "extract" /\ NoneAdopted(req[r])
        /\ Len(req[r].variants) = 3
        /\ Succeeded(req[r]) = {1, 2, 3}
        /\ ScoreOfVariant(req[r], 1) = 3000
        /\ ScoreOfVariant(req[r], 2) = 7500
        /\ ScoreOfVariant(req[r], 3) = 7500
        /\ req[r].ocr[1].raw_text_with_lines = Transcript.w50
        /\ Transcript[UsedOutcome(req[r], 3).text] = Transcript.w101


(***************************************************************************)
(* The functions of extraction.py on their own.  Each specification draws  *)
(* an input in its initial state and applies the function to it once; the  *)
(* service is at rest.                                                     *)
(***************************************************************************)
AtRest ==
    /\ tesseract_available = TRUE /\ easyocr_installed = TRUE
    /\ easyocr_reader = NoReader /\ constructions = 0 /\ init_failed = FALSE
    /\ req = [r \in Workers |-> Idle]
    /\ ret = <<>> /\ fn = "none"

\* money strings: [symbol] digits [separator ddd] [separator d or dd], and
\* bare digit strings
AmountSymbols == {<<>>, <<"$">>, <<"EUR", " ">>}
AmountHeads == {<<"0">>, <<"7">>, <<"1", "2">>}
AmountGroups == {<<>>, <<",", "2", "3", "4">>, <<".", "2", "3", "4">>, <<" ", "2", "3", "4">>}
AmountTails == {<<>>, <<".", "5", "6">>, <<",", "5", "6">>, <<".", "5">>, <<",", "5">>,
                <<".", "5", "0">>, <<",", "5", "0">>}

AmountInputs ==
    {y \o h \o g \o d : y \in AmountSymbols, h \in AmountHeads,
                        g \in AmountGroups, d \in AmountTails}
    \cup {<<"1", "2", "3", "4">>, <<" ", "1", "2", "3", "4", " ">>}

InitAmount == today = Today /\ AtRest /\ arg \in AmountInputs

CallParseAmount ==
    /\ fn = "none"
    /\ fn' = "parse_amount"
    /\ ret' = parse_amount(arg)
    /\ UNCHANGED <<today, arg, Pipeline>>

SpecAmount == InitAmount /\ [][CallParseAmount]_vars

\* the string ends in a separator and one or two digits
HasDecimalPart(s) ==
    \E p \in 1..Len(s) :
        /\ s[p] \in {",", "."}
        /\ Len(s) - p \in {1, 2}
        /\ \A i \in (p + 1)..Len(s) : s[i] \in Digit

\* the reading in which the final separator is the decimal point and all
\* before it is grouping, in hundredths
FinalSeparatorReading(s) ==
    LET p == CHOOSE i \in 1..Len(s) :
                 s[i] \in {",", "."} /\ \A j \in (i + 1)..Len(s) : s[j] \in Digit
        whole == SelectSeq(SubSeq(s, 1, p - 1), LAMBDA c : c \in Digit)
        cents == SubSeq(s, p + 1, Len(s))
    IN  DigitsVal(whole) * 100
        + (IF Len(cents) = 1 THEN 10 * DigitsVal(cents) ELSE DigitsVal(cents))

\* C5: _parse_amount reads the final separator followed by one or two
\* digits as the decimal point and every earlier separator as grouping,
\* for ',' and '.' alike; a digit string without decimal part is not matched.
C5_FinalSeparatorIsDecimal ==
    fn = "parse_amount" =>
        IF HasDecimalPart(arg)
        THEN ret = Some(FinalSeparatorReading(arg))
        ELSE (\A i \in 1..Len(arg) : arg[i] \in Digit \cup {" "}) => ret = None


\* receipt lines: [qty x] name gap [qty | qty @ unit] price
ItemNames == {
    <<"M","i","l","k">>,
    <<"S","U","B","T","O","T","A","L">>,
    <<"S","u","b"," ","T","o","t","a","l">>,
    <<"S","a","l","e","s"," ","t","a","x">>,
    <<"S","u","b","t","o","t","a","l","s">>,
    <<"B","a","g","-","t","i","p">>,
    <<"T","e","a"," ","c","a","s","h">>,
    <<"T","O","T","A","L">>,
    <<"G","r","e","e","n"," ","T","e","a">>,
    <<"C","a","s","h","e","w">>}
ItemPrefixes == {<<>>, <<"2"," ","x"," ">>}
ItemGaps == {<<" ">>, <<" "," ">>}
ItemMids == {<<>>, <<"2"," "," ">>, <<"2"," ","@"," ","1",".","0","0"," "," ">>}
ItemPrices == {<<"2","0",".","3","5">>, <<"$","4",",","9","8">>}

ItemLines ==
    {q \o n \o g \o d \o c : q \in ItemPrefixes, n \in ItemNames, g \in ItemGaps,
                             d \in ItemMids, c \in ItemPrices}

\* a line that comes before the line drawn
ItemLeads == {<<"M","i","l","k"," "," ","3",".","4","9">>,
              <<"T","A","X"," "," ","0",".","5","2">>}

ItemTexts == ItemLines \cup {JoinLines(<<a, b>>) : a \in ItemLeads, b \in ItemLines}

InitItems == today = Today /\ AtRest /\ arg \in ItemTexts

CallExtractLineItems ==
    /\ fn = "none"
    /\ fn' = "extract_line_items"
    /\ ret' = extract_line_items(arg)
    /\ UNCHANGED <<today, arg, Pipeline>>

SpecItems == InitItems /\ [][CallExtractLineItems]_vars

\* some noise word stands in the line as a whole word, in any case
ContainsNoiseWord(line) ==
    \E n \in 1..Len(NoiseWords), i \in 1..Len(line) :
        /\ i + Len(NoiseWords[n]) - 1 <= Len(line)
        /\ LowerStr(SubSeq(line, i, i + Len(NoiseWords[n]) - 1)) = NoiseWords[n]
        /\ (i = 1 \/ line[i - 1] \notin WordCh)
        /\ (i + Len(NoiseWords[n]) > Len(line) \/ line[i + Len(NoiseWords[n])] \notin WordCh)

WithoutNoiseLines(text) ==
    JoinLines(SelectSeq(SplitLines(text), LAMBDA l : ~ContainsNoiseWord(l)))

\* C6: extract_line_items emits nothing for a line that contains a noise
\* word as a whole word: the items of a text are those of its other lines,
\* and a text of such lines alone has none.
C6_NoItemFromNoiseLine ==
    fn = "extract_line_items" =>
        /\ ret = extract_line_items(WithoutNoiseLines(arg))
        /\ (\A k \in 1..Len(SplitLines(arg)) : ContainsNoiseWord(SplitLines(arg)[k]))
              => ret = <<>>

\* a line with a noise word that has the shape of an item, after a line
\* that is one: the first is emitted and the second is not
C6_Witness ==
    /\ fn = "extract_line_items"
    /\ Len(SplitLines(arg)) = 2
    /\ ~ContainsNoiseWord(SplitLines(arg)[1])
    /\ ContainsNoiseWord(SplitLines(arg)[2])
    /\ FirstMatch(Strip(SplitLines(arg)[2])) # None
    /\ Len(ret) = 1


\* date strings: the shapes of the six patterns around the years of
\* DateYears, and texts of one of them or of two
DateYears == {<<"2","0","2","5">>, <<"2","0","2","7">>, <<"2","0","2","8">>, <<"2","0","3","1">>}
DateShortYears == {<<"2","7">>, <<"2","8">>, <<"3","1">>}

DateStrings ==
    {y \o <<"-","0","1","-","1","5">> : y \in DateYears}
    \cup {s \o y : s \in {<<"0","1","/","1","5","/">>,
                   <<"1","5",".","0","1",".">>,
                   <<"1","5"," ","J","a","n"," ">>,
                   <<"J","a","n"," ","1","5",","," ">>,
                   <<"J","a","n","u","a","r","y"," ","1","5"," ">>},
                   y \in DateYears \cup DateShortYears}

DateLeads == {<<"0","1","/","1","5","/","2","0","3","1">>, <<"1","5"," ","J","a","n"," ","2","8">>}

DateTexts == DateStrings \cup {JoinLines(<<a, b>>) : a \in DateLeads, b \in DateStrings}

\* datetime.now() at the call
Todays == {Today, [year |-> 2027, month |-> 6, day |-> 15], [year |-> 2030, month |-> 1, day |-> 1]}

InitDate == today \in Todays /\ AtRest /\ arg \in DateTexts

CallExtractDate ==
    /\ fn = "none"
    /\ fn' = "extract_date"
    /\ ret' = extract_date(arg, today)
    /\ UNCHANGED <<today, arg, Pipeline>>

SpecDate == InitDate /\ [][CallExtractDate]_vars

\* the year of a date written by strftime("%Y-%m-%d")
YearOf(date) == DigitsVal(SubSeq(date, 1, (CHOOSE i \in 1..Len(date) : date[i] = "-" /\ \A j \in 1..(i - 1) : date[j] # "-") - 1))

\* C7: extract_date never returns a date whose year is greater than the
\* current year + 1.
C7_NoFarFutureDate ==
    (fn = "extract_date" /\ ret # None) => YearOf(ret[1]) <= today.year + 1

\* a match that parses to a year beyond the bound was skipped, and a later
\* one of the year current + 1 was returned
C7_Witness ==
    /\ fn = "extract_date"
    /\ ret # None
    /\ YearOf(ret[1]) = today.year + 1
    /\ \E p \in 1..Len(date_patterns) :
          \E m \in {FindAll0(date_patterns[p], NormaliseDigits(arg), TRUE)[k] :
                       k \in 1..Len(FindAll0(date_patterns[p], NormaliseDigits(arg), TRUE))} :
              /\ DateParse(m, p, today) # None
              /\ DateParse(m, p, today)[1].year > today.year + 1


\* extract on the transcripts above, with every OCR confidence in steps of
\* 0.05
ExtractConfidences == {500 * k : k \in 0..20}

InitExtract ==
    /\ today = Today /\ AtRest
    /\ \E text \in KnownTexts, ocr_confidence \in ExtractConfidences :
          arg = [text |-> text, ocr_confidence |-> ocr_confidence]

CallExtract ==
    /\ fn = "none"
    /\ fn' = "extract"
    /\ ret' = extract(arg.text, arg.ocr_confidence, None, today)
    /\ UNCHANGED <<today, arg, Pipeline>>

SpecExtract == InitExtract /\ [][CallExtract]_vars

\* C1: on the seven-line WALMART transcript extract returns merchant
\* 'WALMART SUPERCENTER', date '2025-01-15', total 7.00, tax 0.52 and the
\* two line items Milk 2% (1, 3.49, 3.49) and Bread Wheat (1, 2.99, 2.99),
\* in this order, and no item for the SUBTOTAL, TAX and TOTAL lines.
C1_WalmartReceipt ==
    (fn = "extract" /\ arg.text = Transcript.walmart) =>
        /\ ret.merchant_name = Some(<<"W","A","L","M","A","R","T"," ","S","U","P","E","R","C","E","N","T","E","R">>)
        /\ ret.receipt_date = Some(<<"2","0","2","5","-","0","1","-","1","5">>)
        /\ ret.total_amount = Some(700)
        /\ ret.tax_amount = Some(52)
        /\ ret.line_items =
              <<[name |-> <<"M","i","l","k"," ","2","%">>, quantity |-> 1, price |-> 349, total |-> 349],
                [name |-> <<"B","r","e","a","d"," ","W","h","e","a","t">>, quantity |-> 1, price |-> 299, total |-> 299]>>

(***************************************************************************)
(* extract on transcripts with nothing to find in them: the empty text,    *)
(* text without a money value, item lines whose quantity column reads 0,   *)
(* and date-shaped strings that are no date.                               *)
(***************************************************************************)
\* lines without a date in them: the last three have the shape of a date
\* that the parser refuses
NoDateLines == {
    <<>>,
    <<" "," "," ">>,
    <<"T","h","a","n","k"," ","y","o","u">>,
    <<"0"," ","x"," ","M","i","l","k"," ","4",".","9","8">>,
    <<"M","i","l","k"," ","0"," ","@"," ","2",".","4","9"," ","4",".","9","8">>,
    <<"M","i","l","k"," "," ","0"," "," ","2",".","4","9">>,
    <<"9","9","/","9","9","/","2","0","2","4">>,
    <<"3","1",".","0","2",".","2","0","2","4">>,
    <<"J","a","n"," ","3","2",","," ","2","0","2","4">>}

\* lines a second line is put under
RobustHeads == {<<>>, <<"0"," ","x"," ","M","i","l","k"," ","4",".","9","8">>, <<"M","i","l","k"," "," ","0"," "," ","2",".","4","9">>, <<"9","9","/","9","9","/","2","0","2","4">>}

RobustTexts ==
    NoDateLines \cup {h \o <<"\n">> \o l : h \in RobustHeads, l \in NoDateLines}

RobustConfidences == {0, 5000, 10000}

InitRobust ==
    /\ today = Today /\ AtRest
    /\ \E text \in RobustTexts, ocr_confidence \in RobustConfidences :
          arg = [text |-> text, ocr_confidence |-> ocr_confidence]

SpecRobust == InitRobust /\ [][CallExtract]_vars

\* YYYY-MM-DD with a month in 01..12 and a day in 01..31
IsIsoDate(s) ==
    /\ Len(s) = 10
    /\ \A i \in {1, 2, 3, 4, 6, 7, 9, 10} : s[i] \in Digit
    /\ s[5] = "-" /\ s[8] = "-"
    /\ DigitsVal(SubSeq(s, 6, 7)) \in 1..12
    /\ DigitsVal(SubSeq(s, 9, 10)) \in 1..31

HasDigit(s) == \E i \in 1..Len(s) : s[i] \in Digit
IsBlank(s) == \A i \in 1..Len(s) : s[i] \in Space

\* C11: for every transcript (the empty one, one without a money value, one
\* with item lines whose quantity reads 0, one with date-shaped strings that
\* do not parse) and every confidence, extract returns a record with all six
\* fields; a field that is not found is None (the empty list for the
\* items), a field that is found is a value of its kind, and no error comes
\* out of the call.
C11_ExtractAlwaysReturns ==
    fn = "extract" =>
        /\ DOMAIN ret = {"merchant_name", "receipt_date", "total_amount", "tax_amount",
                         "line_items", "confidence_score"}
        /\ ret.merchant_name = None \/ ~IsBlank(ret.merchant_name[1])
        /\ ret.receipt_date = None \/ IsIsoDate(ret.receipt_date[1])
        /\ ret.total_amount = None \/ ret.total_amount[1] > 0
        /\ ret.tax_amount = None \/ ret.tax_amount[1] > 0
        /\ \A i \in 1..Len(ret.line_items) :
              DOMAIN ret.line_items[i] = {"name", "quantity", "price", "total"}
        /\ ret.confidence_score \in Int
        /\ IsBlank(arg.text) => ret.merchant_name = None
        /\ ~HasDigit(arg.text) =>
              /\ ret.total_amount = None /\ ret.tax_amount = None
              /\ ret.line_items = <<>>
        /\ arg.text \in RobustTexts => ret.receipt_date = None

\* extract has returned on a transcript with a quantity of 0 and a
\* date-shaped string that is no date: no date, and the rest of the record
C11_Witness ==
    /\ fn = "extract"
    /\ arg.text = <<"0"," ","x"," ","M","i","l","k"," ","4",".","9","8","\n","9","9","/","9","9","/","2","0","2","4">>
    /\ ret.receipt_date = None
    /\ ret.total_amount = Some(498)

(***************************************************************************)
(* _calculate_confidence on its own: every combination of fields found and *)
(* not found, with OCR confidences over [0, 1].  Confidences at which      *)
(* 0.5 * ocr_confidence lies exactly between two hundredths are left out:  *)
(* there the binary floating-point value decides the rounding.             *)
(***************************************************************************)
FieldResults ==
    [merchant_name : {None, Some(<<"A","C","M","E">>)},
     receipt_date : {None, Some(<<"2","0","2","5","-","0","1","-","1","5">>)},
     total_amount : {None, Some(700)},
     tax_amount : {None, Some(52)},
     line_items : {<<>>, <<[name |-> <<"M","i","l","k">>, quantity |-> 1, price |-> 349, total |-> 349]>>}]

ConfidenceInputs == {200 * k + d : k \in 0..49, d \in {0, 30, 170}} \cup {One}

InitConfidence ==
    /\ today = Today /\ AtRest
    /\ \E result \in FieldResults, ocr_confidence \in ConfidenceInputs :
          arg = [result |-> result, ocr_confidence |-> ocr_confidence]

CallCalculateConfidence ==
    /\ fn = "none"
    /\ fn' = "_calculate_confidence"
    /\ ret' = calculate_confidence(arg.result, arg.ocr_confidence)
    /\ UNCHANGED <<today, arg, Pipeline>>

SpecConfidence == InitConfidence /\ [][CallCalculateConfidence]_vars

\* C12: of two results that differ only in whether total_amount is present,
\* the one with the total has a fused confidence at least as high.
C12_TotalNeverLowers ==
    (fn = "_calculate_confidence" /\ arg.result.total_amount # None) =>
        ret >= calculate_confidence([arg.result EXCEPT !.total_amount = None],
                                    arg.ocr_confidence)

\* a result with a total, scored strictly above the same result without it
C12_Witness ==
    /\ fn = "_calculate_confidence"
    /\ arg.result.total_amount # None
    /\ arg.result.merchant_name = None
    /\ arg.ocr_confidence = 6000
    /\ ret > calculate_confidence([arg.result EXCEPT !.total_amount = None],
                                  arg.ocr_confidence)

\* the weight (in 1/10000) a field adds when it is present
Weighted(present, weight) == IF present THEN weight ELSE 0

\* C19: _calculate_confidence returns round(min(1, 0.5 * ocr_confidence
\* + 0.10 for a merchant + 0.15 for a date + 0.20 for a total + 0.05 for a
\* tax + 0.10 for at least one line item), 2), and for an ocr_confidence in
\* [0, 1] the result lies in [0, 1].
C19_ConfidenceFormula ==
    fn = "_calculate_confidence" =>
        /\ ret = Round2(Min(20000,
                    arg.ocr_confidence
                    + 2 * ( Weighted(arg.result.merchant_name # None, 1000)
                          + Weighted(arg.result.receipt_date # None, 1500)
                          + Weighted(arg.result.total_amount # None, 2000)
                          + Weighted(arg.result.tax_amount # None, 500)
                          + Weighted(arg.result.line_items # <<>>, 1000))))
        /\ (arg.ocr_confidence >= 0 /\ arg.ocr_confidence <= 10000) =>
              (ret >= 0 /\ ret <= 10000)

\* every field found on a transcript read with confidence 0.9: the sum is
\* 1.05 and the score is capped at 1.0
C19_Witness ==
    /\ fn = "_calculate_confidence"
    /\ arg.ocr_confidence = 9000
    /\ arg.result.merchant_name # None /\ arg.result.receipt_date # None
    /\ arg.result.total_amount # None /\ arg.result.tax_amount # None
    /\ arg.result.line_items # <<>>
    /\ ret = 10000

(***************************************************************************)
(* extract_line_items on lines with a quantity column: the three shapes    *)
(* that carry one, quantities from 0 up, a short name and one longer than  *)
(* 60 characters.                                                          *)
(***************************************************************************)
QtyColumns == {<<"0">>, <<"0","0">>, <<"1">>, <<"2">>, <<"3">>, <<"1","2">>}
QtyNames ==
    {<<"M","i","l","k">>,
     <<"A","b","c","d","e","f","g","h","i"," ","A","b","c","d","e","f","g","h","i"," ","A","b","c","d","e","f","g","h","i"," ","A","b","c","d","e","f","g","h","i"," ","A","b","c","d","e","f","g","h","i"," ","A","b","c","d","e","f","g","h","i"," ","A","b","c","d","e","f","g","h","i">>}
QtyPrices == {<<"4",".","9","8">>, <<"$","1","0",",","0","0">>, <<"0",".","0","0">>}

\* 2 x NAME 4.98
QtyShape1(q, n, c) == q \o <<" ","x"," ">> \o n \o <<" ">> \o c
\* NAME 2 @ 2.49 4.98
QtyShape2(q, n, c) == n \o <<" ">> \o q \o <<" ","@"," ","2",".","4","9"," ">> \o c
\* NAME  2  2.49
QtyShape3(q, n, c) == n \o <<" "," ">> \o q \o <<" "," ">> \o c

QtyTexts ==
    {QtyShape1(q, n, c) : q \in QtyColumns, n \in QtyNames, c \in QtyPrices}
    \cup {QtyShape2(q, n, c) : q \in QtyColumns, n \in QtyNames, c \in QtyPrices}
    \cup {QtyShape3(q, n, c) : q \in QtyColumns, n \in QtyNames, c \in QtyPrices}

InitQuantities == today = Today /\ AtRest /\ arg \in QtyTexts

SpecQuantities == InitQuantities /\ [][CallExtractLineItems]_vars

\* C13: every line item that extract_line_items emits has a name of at most
\* 60 characters and a quantity of at least 1, also on lines of shapes 1 and
\* 2 whose quantity column reads 0.
C13_NameAndQuantity ==
    fn = "extract_line_items" =>
        \A i \in 1..Len(ret) : Len(ret[i].name) <= 60 /\ ret[i].quantity >= 1

(***************************************************************************)
(* ocr.py: the shared EasyOCR reader and the variant loop                  *)
(***************************************************************************)
\* C14: under concurrent requests on the one shared OCRService the EasyOCR
\* reader is constructed at most once per process: no interleaving of two
\* requests that both need it leads to two constructions.
C14_ConstructedOnce == constructions <= 1

\* extract_text on lists of variants among which some are read well (50
\* words at 0.85), some poorly with many words (0.40 on 50 words scores
\* 0.60, 0.22 on 101 words scores 0.44)
LoopTess == {Failed, Read("w50", 8500), Read("w50", 4000), Read("w101", 2200)}
LoopEasy == {Failed, Read("w1", 4000)}

LoopLists ==
    UNION {[1..n -> {Variant(t, e) : t \in LoopTess, e \in LoopEasy}] :
              n \in 0..MaxVariants}

InitLoop ==
    /\ today = Today
    /\ arg = <<>> /\ ret = <<>> /\ fn = "none"
    /\ tesseract_available \in BOOLEAN
    /\ easyocr_installed \in BOOLEAN
    /\ \E made \in BOOLEAN :
          /\ made => easyocr_installed
          /\ easyocr_reader = IF made THEN "Reader" ELSE NoReader
          /\ constructions = IF made THEN 1 ELSE 0
    /\ init_failed = FALSE
    /\ \E variants \in LoopLists, engine \in {"tesseract", "easyocr"} :
          req = [r \in Workers |->
                    IF r = 1 THEN start_ocr(Idle, variants, engine) ELSE Idle]

SpecLoop == InitLoop /\ [][NextOcr]_vars

\* what the backend returned on the k-th call of the request
OutcomeOfLoopCall(s, k) ==
    IF s.calls[k][1] = "easyocr" THEN s.variants[s.calls[k][2]].easy
    ELSE s.variants[s.calls[k][2]].tess

\* an attempt good enough to stop at: confidence >= 0.80 and >= 20 words
Strong(o) == o.ok /\ o.conf >= 8000 /\ WordCount(Transcript[o.text]) >= 20

\* a weak attempt: confidence < 0.45 or fewer than 8 words
Weak(o) == o.ok /\ (o.conf < 4500 \/ WordCount(Transcript[o.text]) < 8)

\* C15: once a variant achieves a backend confidence >= 0.80 and a
\* word_count >= 20 the loop of extract_text exits: the backend is not
\* invoked on any later variant of the list.
C15_EarlyExit ==
    \A r \in Workers :
        req[r].pc \in {"ocr", "fallback"} =>
            \A k \in 1..Len(req[r].calls) :
                Strong(OutcomeOfLoopCall(req[r], k)) => k = Len(req[r].calls)

\* C16: a variant whose first attempt is weak (confidence < 0.45 or
\* word_count < 8) is tried a second time on the same backend, with the
\* alternate layout configuration: when the loop is over it has had two
\* calls.
C16_WeakVariantRetried ==
    \A r \in Workers :
        req[r].pc = "fallback" =>
            \A k \in 1..Len(req[r].calls) :
                Weak(OutcomeOfLoopCall(req[r], k)) =>
                    Cardinality({j \in 1..Len(req[r].calls) :
                                    req[r].calls[j] = req[r].calls[k]}) = 2

\* the request called EasyOCR after its loop (on a loop that ran Tesseract)
FallbackCalls(s) == {k \in 1..Len(s.calls) : s.calls[k][1] = "easyocr"}

\* the backend-reported confidence of the best variant of the loop
BestVariantConf(s) == UsedOutcome(s, Winner(s)).conf

\* C17: after a loop with a preferred engine other than EasyOCR, EasyOCR is
\* invoked exactly when the best variant's backend-reported confidence is
\* below 0.45, at most once and on the first variant of the list, and its
\* transcript is adopted exactly when its confidence is higher than the
\* best variant's confidence.  With EasyOCR as the preferred engine there is
\* no call after the loop.
C17_FallbackOnConfidence ==
    \A r \in Workers :
        LET s == req[r]
        IN  /\ (/\ s.pc = "finish" /\ s.engine = "tesseract"
                /\ tesseract_available /\ easyocr_installed
                /\ Succeeded(s) # {}) =>
                  /\ (FallbackCalls(s) # {}) <=> (BestVariantConf(s) < 4500)
                  /\ Cardinality(FallbackCalls(s)) <= 1
                  /\ \A k \in FallbackCalls(s) : s.calls[k][2] = 1
                  /\ (s.best_engine = "easyocr") <=>
                        /\ FallbackCalls(s) # {}
                        /\ s.variants[1].easy.ok
                        /\ s.variants[1].easy.conf > BestVariantConf(s)
            /\ (s.pc = "finish" /\ s.engine = "easyocr") =>
                  Len(s.calls) <= Len(s.variants)

\* C18: once the initialisation of EasyOCR has failed, the failure is
\* remembered: a later request that reaches the fallback (its loop ran
\* Tesseract, so every earlier attempt was another request's) does not go
\* into the initialisation again.
C18_FailureRemembered ==
    [][\A r \in Workers :
          (/\ init_failed
           /\ tesseract_available /\ req[r].engine # "easyocr"
           /\ req[r].pc = "fallback") => req'[r].pc # "construct"]_vars

(***************************************************************************)
(* extract_total and extract_tax on receipts of one or two lines           *)
(***************************************************************************)
TotalLines == {
    <<"G","R","A","N","D"," ","T","O","T","A","L"," ","1","2",".","5","0">>,
    <<"T","o","t","a","l"," ","D","u","e",":"," ","$","0",".","0","0">>,
    <<"A","m","o","u","n","t"," ","d","u","e"," ","9",".","9","9">>,
    <<"T","O","T","A","L"," ","3",".","0","0">>,
    <<"T","o","t","a","l"," "," ","7",".","0","0">>,
    <<"T","O","T","A","L"," ","0",".","0","0">>,
    <<"A","M","O","U","N","T"," ","5",".","0","0">>,
    <<"D","u","e"," ","2",".","0","0">>,
    <<"M","i","l","k"," "," ","3",".","4","9">>,
    <<"S","U","B","T","O","T","A","L"," ","6",".","4","8">>,
    <<"T","e","a"," ","$","1","2",".","5","0">>,
    <<"B","r","e","a","d"," ","0",".","0","0">>,
    <<"T","A","X"," ","0",".","5","2">>}

TotalTexts == TotalLines \cup {JoinLines(<<a, b>>) : a \in TotalLines, b \in TotalLines}

InitTotal == today = Today /\ AtRest /\ arg \in TotalTexts

CallExtractTotal ==
    /\ fn = "none"
    /\ fn' = "extract_total"
    /\ ret' = extract_total(arg)
    /\ UNCHANGED <<today, arg, Pipeline>>

SpecTotal == InitTotal /\ [][CallExtractTotal]_vars

\* the places (in priority order) of the labels that a money value follows
\* somewhere in the text
LabelsWithMatch(text) ==
    {k \in 1..Len(total_labels) :
        FindAll1(LabelPattern(total_labels[k]), text, TRUE) # <<>>}

\* C20: extract_total returns the money value of the last occurrence of the
\* first label, in the order grand total, total due, amount due, balance
\* due, net total, amt due, total amount, total sale, total, amount, due,
\* that a money value follows; a label of lower priority is not used when
\* one of higher priority has a match.
C20_FirstLabelLastMatch ==
    (fn = "extract_total" /\ LabelsWithMatch(arg) # {}) =>
        LET matches == FindAll1(LabelPattern(total_labels[MinOf(LabelsWithMatch(arg))]),
                                arg, TRUE)
        IN  ret = parse_amount(matches[Len(matches)])

CallExtractTax ==
    /\ fn = "none"
    /\ fn' = "extract_tax"
    /\ ret' = extract_tax(arg)
    /\ UNCHANGED <<today, arg, Pipeline>>

SpecTotalTax == InitTotal /\ [][CallExtractTotal \/ CallExtractTax]_vars

\* the lines above that carry no total label, with their money value in
\* hundredths
UnlabelledAmount ==
    (<<"M","i","l","k"," "," ","3",".","4","9">> :> 349) @@ (<<"T","e","a"," ","$","1","2",".","5","0">> :> 1250) @@ (<<"B","r","e","a","d"," ","0",".","0","0">> :> 0)
    @@ (<<"T","A","X"," ","0",".","5","2">> :> 52)

\* the lines above that carry a tax label
TaxLines == {<<"T","A","X"," ","0",".","5","2">>}

LinesOf(text) == {SplitLines(text)[k] : k \in 1..Len(SplitLines(text))}

\* C21: when no total label of the text is followed by a money value,
\* extract_total returns the largest strictly positive money value of the
\* text, and absent when there is none; extract_tax has no such fallback
\* and returns absent whenever no tax label is followed by a money value.
C21_LargestAmountFallback ==
    /\ (fn = "extract_total" /\ LinesOf(arg) \subseteq DOMAIN UnlabelledAmount) =>
          LET positive == {UnlabelledAmount[l] : l \in LinesOf(arg)} \ {0}
          IN  ret = IF positive = {} THEN None ELSE Some(MaxOf(positive))
    /\ (fn = "extract_tax" /\ LinesOf(arg) \cap TaxLines = {}) => ret = None

\* two lines without a label, the smaller amount first: extract_total has
\* returned the larger one
C21_Witness ==
    /\ fn = "extract_total"
    /\ arg = <<"M","i","l","k"," "," ","3",".","4","9","\n","T","e","a"," ","$","1","2",".","5","0">>
    /\ ret = Some(1250)

(***************************************************************************)
(* extract_line_items on transcripts of one to three lines, among them     *)
(* lines that more than one shape matches and a line whose first matching  *)
(* shape gives a zero total.                                               *)
(***************************************************************************)
MaxCascadeLines == 3

\* the lines, each with the items its first matching shape appends:
\* shapes 1 and 2 both match the first (quantity 3 or 2), shapes 3, 4 and 5
\* the second and the third, shapes 4 and 5 the fifth, none the last
CascadeItems ==
    (<<"3"," ","x"," ","M","i","l","k"," ","2"," ","@"," ","2",".","4","9"," ","4",".","9","8">> :>
        <<[name |-> <<"M","i","l","k"," ","2"," ","@"," ","2",".","4","9">>, quantity |-> 3, price |-> 166, total |-> 498]>>)
    @@ (<<"M","i","l","k"," "," ","2"," "," ","2",".","4","9">> :>
        <<[name |-> <<"M","i","l","k">>, quantity |-> 2, price |-> 249, total |-> 498]>>)
    @@ (<<"M","i","l","k"," "," ","0"," "," ","2",".","4","9">> :> <<>>)
    @@ (<<"T","e","a"," ","1",".","5","0">> :>
        <<[name |-> <<"T","e","a">>, quantity |-> 1, price |-> 150, total |-> 150]>>)
    @@ (<<"E","g","g","s"," "," ","3",".","0","0">> :>
        <<[name |-> <<"E","g","g","s">>, quantity |-> 1, price |-> 300, total |-> 300]>>)
    @@ (<<"1","2",":","3","0"," ","#","4","4","7","1">> :> <<>>)

CascadeLines == DOMAIN CascadeItems

CascadeTexts ==
    {JoinLines(ls) : ls \in UNION {[1..n -> CascadeLines] : n \in 1..MaxCascadeLines}}

InitCascade == today = Today /\ AtRest /\ arg \in CascadeTexts

SpecCascade == InitCascade /\ [][CallExtractLineItems]_vars

\* C22: every line is tried against the five shapes in the order 1..5 and
\* only the first shape that matches is used: a line gives at most one
\* item, a line whose first matching shape gives a discarded item is not
\* retried with a later shape, and the items come in the order of their
\* lines.
C22_FirstShapeOnly ==
    fn = "extract_line_items" =>
        LET lines == SplitLines(arg)
        IN  ret = Flatten([k \in 1..Len(lines) |-> CascadeItems[lines[k]]])

\* a line that shape 3 matches with quantity 0, between two item lines: it
\* gave nothing, the items of its neighbours are in the order of the lines
C22_Witness ==
    /\ fn = "extract_line_items"
    /\ arg = <<"T","e","a"," ","1",".","5","0","\n","M","i","l","k"," "," ","0"," "," ","2",".","4","9","\n","3"," ","x"," ","M","i","l","k"," ","2"," ","@"," ","2",".","4","9"," ","4",".","9","8">>
    /\ Len(ret) = 2
    /\ ret[1].name = <<"T","e","a">>
    /\ ret[2].quantity = 3

\* C23: every item that extract_line_items emits has a line total strictly
\* greater than 0; a line whose total comes out as zero (shape 3 with
\* quantity 0, a price of 0.00) gives no item.
C23_PositiveTotals ==
    fn = "extract_line_items" => \A i \in 1..Len(ret) : ret[i].total > 0

\* a line of shape 1 priced 0.00 has given no item
C23_Witness ==
    /\ fn = "extract_line_items"
    /\ arg = QtyShape1(<<"2">>, <<"M","i","l","k">>, <<"0",".","0","0">>)
    /\ ret = <<>>

(***************************************************************************)
(* extract_merchant on transcripts of one to three lines, with and without *)
(* an entity-recognition backend that finds a name.                        *)
(***************************************************************************)
MaxMerchantLines == 3

\* the lines and what each is to the strategies: a line with a keyword, a
\* line of letters without one, a longer line that is neither, a short one
MerchantKinds ==
    (<<"Q","U","I","K"," ","M","A","R","T">> :> "keyword") @@ (<<"J","o","e"," ","D","i","n","e","r">> :> "alpha")
    @@ (<<"1","2",":","3","0"," ","#","4","4","7","1">> :> "long") @@ (<<"#","1","2">> :> "short")

MerchantLines == DOMAIN MerchantKinds

MerchantTexts ==
    {JoinLines(ls) : ls \in UNION {[1..n -> MerchantLines] : n \in 1..MaxMerchantLines}}

\* what extract_merchant_bert returns: nothing (or the backend is off), a name
BertAnswers == {None, Some(<<"A","c","m","e"," ","C","o","r","p">>)}

InitMerchant ==
    /\ today = Today /\ AtRest
    /\ arg \in [text : MerchantTexts, bert : BertAnswers]

CallExtractMerchant ==
    /\ fn = "none"
    /\ fn' = "extract_merchant"
    /\ ret' = extract_merchant(arg.text, arg.bert)
    /\ UNCHANGED <<today, arg, Pipeline>>

SpecMerchant == InitMerchant /\ [][CallExtractMerchant]_vars

\* the first line of kind k among the first n lines, as an optional
FirstOfKind(lines, n, kinds) ==
    LET hits == {j \in 1..Min(n, Len(lines)) : MerchantKinds[lines[j]] \in kinds}
    IN  IF hits = {} THEN None ELSE Some(lines[MinOf(hits)])

\* C24: the strategies are applied in the order keyword line of the first
\* 6, mostly-alphabetic line of the first 6, entity-recognition backend,
\* first line of the first 3 longer than 3 characters, and the candidate of
\* the first strategy that yields one is returned: the backend is
\* consulted before the first-line fallback.
C24_BackendBeforeFirstLine ==
    fn = "extract_merchant" =>
        LET lines == SplitLines(arg.text)
            keyword == FirstOfKind(lines, 6, {"keyword"})
            alpha == FirstOfKind(lines, 6, {"keyword", "alpha"})
            first == FirstOfKind(lines, 3, {"keyword", "alpha", "long"})
        IN  ret = IF keyword # None THEN keyword
                  ELSE IF alpha # None THEN alpha
                  ELSE IF arg.bert # None THEN arg.bert
                  ELSE first

(***************************************************************************)
(* preprocessing.py in detail.  A photo is [kind, w, h, angle, fails]: its *)
(* size in pixels, the median angle of its text lines in tenths of a       *)
(* degree, and the enhancement strategies whose filters raise on it (the   *)
(* conversion to grayscale itself works on every decoded photo).  A        *)
(* variant is [look, w, h].                                                *)
(***************************************************************************)
Abs(n) == IF n < 0 THEN -n ELSE n

max_width == 2000
UPSCALE_BELOW == 800
UPSCALE_TO == 1600
DESKEW_FROM == 3

\* cv2.resize(image, None, fx=num/den, fy=num/den): each side is scaled and
\* rounded to the nearest integer (ties to even)
cv2_resize(image, num, den) ==
    [image EXCEPT !.w = RoundDiv(image.w * num, den), !.h = RoundDiv(image.h * num, den)]

Upscaled(image) ==
    IF Max(image.h, image.w) < UPSCALE_BELOW
    THEN cv2_resize(image, UPSCALE_TO, Max(image.h, image.w))
    ELSE image

Downscaled(image) ==
    IF image.w > max_width THEN cv2_resize(image, max_width, image.w) ELSE image

resize_for_ocr(image) == Downscaled(Upscaled(image))

\* the photo rotated back by the median angle, unless that is below 0.3
deskew(image) ==
    IF Abs(image.angle) < DESKEW_FROM THEN image ELSE [image EXCEPT !.angle = 0]

\* cv2.cvtColor(image, cv2.COLOR_BGR2GRAY)
Gray(image) == [look |-> "gray", w |-> image.w, h |-> image.h]

Enhanced(image, strategy, look) ==
    IF strategy \in image.fails THEN Gray(image)
    ELSE [look |-> look, w |-> image.w, h |-> image.h]

preprocess_printed(image) == Enhanced(image, "printed", "adaptive_threshold")
preprocess_handwritten(image) == Enhanced(image, "handwritten", "otsu")
preprocess_simple(image) == Enhanced(image, "simple", "clahe")

\* variants = [...]
VariantsOf(deskewed_bgr) ==
    <<preprocess_printed(deskewed_bgr), preprocess_handwritten(deskewed_bgr),
      preprocess_simple(deskewed_bgr)>>

Strategies == <<"printed", "handwritten", "simple">>
Sides == {300, 600, 799, 800, 1500, 2000, 2001, 3000, 4000}
Angles == {0, 2, 50}

Photos ==
    [kind : {"image"}, w : Sides, h : Sides, angle : Angles,
     fails : SUBSET {"printed", "handwritten", "simple"}]

Undecodable == [kind |-> "garbage", w |-> 0, h |-> 0, angle |-> 0, fails |-> {}]

InitPreprocess == today = Today /\ AtRest /\ arg \in Photos \cup {Undecodable}

CallResizeForOcr ==
    /\ fn = "none"
    /\ arg.kind = "image"
    /\ fn' = "resize_for_ocr"
    /\ ret' = resize_for_ocr(arg)
    /\ UNCHANGED <<today, arg, Pipeline>>

\* process_for_ocr: the variants, or the ValueError of bytes_to_image
CallProcessForOcr ==
    /\ fn = "none"
    /\ fn' = "process_for_ocr"
    /\ ret' = IF bytes_to_image(arg) = None THEN <<"ValueError">>
              ELSE VariantsOf(deskew(resize_for_ocr(bytes_to_image(arg)[1])))
    /\ UNCHANGED <<today, arg, Pipeline>>

SpecPreprocess == InitPreprocess /\ [][CallResizeForOcr \/ CallProcessForOcr]_vars

StrategyLook ==
    ("printed" :> "adaptive_threshold") @@ ("handwritten" :> "otsu")
    @@ ("simple" :> "clahe")

\* C25: a strategy that throws contributes no variant: the list returned by
\* process_for_ocr holds, in order, only the variants of the strategies
\* that succeeded (between 1 and 3 elements), and the grayscale original
\* when all three fail.
C25_FailedStrategyOmitted ==
    (fn = "process_for_ocr" /\ arg.kind = "image") =>
        LET succeeded == SelectSeq(Strategies, LAMBDA s : s \notin arg.fails)
        IN  IF succeeded = <<>>
            THEN Len(ret) = 1 /\ ret[1].look = "gray"
            ELSE /\ Len(ret) = Len(succeeded)
                 /\ \A i \in 1..Len(ret) : ret[i].look = StrategyLook[succeeded[i]]

\* C26: for every size, the image returned by resize_for_ocr has its
\* longest side at most 2000 pixels, whether that is its width or its
\* height; an image whose longest side is below 800 is upscaled; the
\* width:height ratio is preserved (up to the rounding of each side).
C26_LongestSideBounded ==
    fn = "resize_for_ocr" =>
        /\ Max(ret.w, ret.h) <= 2000
        /\ Max(arg.w, arg.h) < 800 => ret.w > arg.w /\ ret.h > arg.h
        /\ 2 * Abs(ret.w * arg.h - ret.h * arg.w) <= arg.w + arg.h

\* C27: the confidence of the record extract_text returns is the mean
\* confidence the backend reported for the attempt whose transcript is
\* returned (the best variant's, or the fallback's when it was adopted),
\* not the selection score conf * (1 + min(word_count/100, 1)).
C27_ReportedConfidence ==
    \A r \in Workers :
        (req[r].pc = "extract" /\ Succeeded(req[r]) # {}) =>
            req[r].ocr[1].confidence =
                IF NoneAdopted(req[r]) THEN BestVariantConf(req[r])
                ELSE req[r].variants[1].easy.conf

(***************************************************************************)
(* the transcript that reaches the extractor in process_receipt            *)
(***************************************************************************)
\* a line without leading or trailing whitespace and without two
\* consecutive spaces or tabs
NormalisedLine(line) ==
    /\ line # <<>>
    /\ line[1] \notin Space /\ line[Len(line)] \notin Space
    /\ \A i \in 1..(Len(line) - 1) :
          ~(line[i] \in {" ", "\t"} /\ line[i + 1] \in {" ", "\t"})

\* a transcript of such lines (the empty transcript has none)
Normalised(text) ==
    text = <<>> \/ \A k \in 1..Len(SplitLines(text)) : NormalisedLine(SplitLines(text)[k])

\* C28: the transcript handed to extract is the whitespace-normalised
\* raw_text: no line of it is empty, starts or ends with whitespace, or has
\* two consecutive spaces or tabs.  So the wide-gap shapes 3 and 4 match
\* none of its lines, and a line 'name qty price' gives, by shape 5, an
\* item of quantity 1 whose name ends with the quantity digits.
C28_NormalisedTranscript ==
    \A r \in Workers :
        /\ req[r].ocr # None =>
              LET lines == SplitLines(req[r].ocr[1].raw_text)
              IN  /\ Normalised(req[r].ocr[1].raw_text)
                  /\ \A k \in 1..Len(lines) :
                        /\ MatchAt(patterns[3], lines[k], 1, FALSE) = None
                        /\ MatchAt(patterns[4], lines[k], 1, FALSE) = None
        /\ req[r].result # None =>
              /\ req[r].result[1].raw_text = req[r].ocr[1].raw_text
              /\ (\E k \in 1..Len(SplitLines(req[r].ocr[1].raw_text)) :
                     SplitLines(req[r].ocr[1].raw_text)[k] = <<"M","i","l","k"," ","2"," ","2",".","4","9">>) =>
                    \E i \in 1..Len(req[r].result[1].line_items) :
                       /\ req[r].result[1].line_items[i].name = <<"M","i","l","k"," ","2">>
                       /\ req[r].result[1].line_items[i].quantity = 1
                       /\ req[r].result[1].line_items[i].total = 249

\* a photo whose best transcript has the line 'Milk  2  2.49' between wide
\* gaps has been answered: the line reached the extractor as 'Milk 2 2.49'
\* and gave the item 'Milk 2' with quantity 1
C28_Witness ==
    \E r \in Workers :
        /\ req[r].pc = "done" /\ req[r].result # None
        /\ req[r].ocr[1].raw_text_with_lines = Transcript.receipt
        /\ \E k \in 1..Len(SplitLines(req[r].ocr[1].raw_text)) :
              SplitLines(req[r].ocr[1].raw_text)[k] = <<"M","i","l","k"," ","2"," ","2",".","4","9">>
        /\ \E i \in 1..Len(req[r].result[1].line_items) :
              /\ req[r].result[1].line_items[i].name = <<"M","i","l","k"," ","2">>
              /\ req[r].result[1].line_items[i].quantity = 1

\* the 'TOTAL <amount>' lines above with a positive amount
TotalLineAmount == (<<"T","O","T","A","L"," ","3",".","0","0">> :> 300) @@ (<<"T","o","t","a","l"," "," ","7",".","0","0">> :> 700)

\* C29: on a transcript of a 'TOTAL <amount>' line and a 'SUBTOTAL <amount>'
\* line, both amounts positive, extract_total returns the amount of the
\* TOTAL line whichever of the two comes later: the bare label 'total'
\* does not match inside 'SUBTOTAL'.
C29_TotalNotSubtotal ==
    \A l \in DOMAIN TotalLineAmount :
        (fn = "extract_total" /\ LinesOf(arg) = {l, <<"S","U","B","T","O","T","A","L"," ","6",".","4","8">>}) =>
            ret = Some(TotalLineAmount[l])

\* the date strings above that are written with the year y, and that year
DateStringsOf(y) ==
    (IF y \in DateYears THEN {y \o <<"-","0","1","-","1","5">>} ELSE {})
    \cup {s \o y : s \in {<<"0","1","/","1","5","/">>, <<"1","5",".","0","1",".">>, <<"1","5"," ","J","a","n"," ">>, <<"J","a","n"," ","1","5",","," ">>, <<"J","a","n","u","a","r","y"," ","1","5"," ">>}}

FullYear(y) == IF Len(y) = 2 THEN 2000 + DigitsVal(y) ELSE DigitsVal(y)

\* C30: when the one date-shaped string of a text is rejected because its
\* year exceeds the current year + 1, extract_date returns no date: no
\* later pattern yields one from a fragment of the rejected string.
C30_NoDateFromFragment ==
    \A y \in DateYears \cup DateShortYears :
        (/\ fn = "extract_date"
         /\ arg \in DateStringsOf(y)
         /\ FullYear(y) > today.year + 1) => ret = None

====
